---- MODULE Spec2Model ----
(***************************************************************************)
(* Merchant-activity ingestion and analytics service.                      *)
(*                                                                         *)
(* IngestionService.importAll drops the secondary indexes, imports the CSV *)
(* files of DATA_DIR in groups of CONCURRENT_FILE_IMPORTS, each file being *)
(* streamed, validated and written in batches through withRetry, rebuilds  *)
(* the indexes and calls AnalyticsService.precompute, which fills the      *)
(* in-memory cache the guarded analytics endpoints read.                   *)
(*                                                                         *)
(* Spec is one import run of up to three files with failing writes;        *)
(* SpecSvc is AnalyticsService with its endpoints; SpecIdx is              *)
(* rebuildIndexes alone; SpecBoot is the import of one file with the HTTP  *)
(* server, SpecBootFair the same with a fair event loop;                   *)
(* SpecVal is the import of one file of arbitrary content;                 *)
(* SpecRow is the import of one file whose lines vary in every column,     *)
(* with the validation counters; SpecQuery is precompute over a store of   *)
(* any content.                                                            *)
(***************************************************************************)
EXTENDS Integers, Sequences, FiniteSets, TLC

(***************************************************************************)
(* Bounds of the model.                                                    *)
(***************************************************************************)
\* rows the files of DATA_DIR hold in total
MaxRows == 3
\* bulk-write attempts that fail during one run
MaxFailures == 3
\* distinct well-formed event_id values that occur in the files
MaxId == 2
\* precompute() calls made on one AnalyticsService instance
MaxPasses == 2
\* rows per bulk write; src/common/constants.ts sets 5000, scaled down here
BATCH_SIZE == 2

(***************************************************************************)
(* Program constants (src/common/constants.ts).                            *)
(***************************************************************************)
CONCURRENT_FILE_IMPORTS == 2
MAX_RETRIES == 3
RETRY_DELAY_MS == 500

\* the files activities_YYYYMMDD.csv that DATA_DIR may hold, in sorted order
AllFiles == {1, 2, 3}

\* An event_id column is a number here: v in Ids is the UUID of value v with
\* its hex digits in lower case, v + UpperCase the same UUID in upper case and
\* v + MixedCase in mixed case.
Ids == 1..MaxId
UpperCase == 100
MixedCase == 200
\* an event_id that fails UUID_REGEX ("not-a-uuid")
BadId == 0
\* an empty event_id column
EmptyId == -1
\* 8-4-4-4-12 characters with a letter outside a-f among them
NonHexId == -2
\* lower-case hex digits with a last group of 11
ShortId == -3
\* a record without event_id column (undefined)
NoId == -4

(***************************************************************************)
(* ValidationService (src/common/constants.ts and validate).               *)
(***************************************************************************)
DATA_YEAR == 2024
VALID_PRODUCTS == {"POS", "AIRTIME", "BILLS", "CARD_PAYMENT", "SAVINGS", "MONIEBOOK", "KYC"}
VALID_STATUSES == {"SUCCESS", "FAILED", "PENDING"}
VALID_CHANNELS == {"POS", "APP", "USSD", "WEB", "OFFLINE"}
VALID_TIERS == {"STARTER", "VERIFIED", "PREMIUM"}

\* the null of a nullable text column
NullText == "<null>"
\* the null of event_timestamp, and an Invalid Date
NoDate == [valid |-> FALSE, year |-> 0, month |-> 0]

\* a JavaScript number: NaN, or a finite value (whole units here)
NaN == [nan |-> TRUE, val |-> 0]
Num(v) == [nan |-> FALSE, val |-> v]

\* the amount columns that occur in the files, and what parseFloat makes of
\* them: the longest numeric prefix, NaN if there is none
Amounts == {"1500.00", "0", "-5", "", "abc", "1,250.00"}
parseFloat(str) ==
  CASE str = "1500.00" -> Num(1500)
    [] str = "0" -> Num(0)
    [] str = "-5" -> Num(0 - 5)
    [] str = "1,250.00" -> Num(1)
    [] str = "1250.00" -> Num(1250)
    [] OTHER -> NaN

\* the event_timestamp columns that occur in the files, and what new Date
\* makes of them (the process runs with TZ = UTC)
Timestamps == {"2024-03-15T10:30:00Z", "2023-12-31T23:59:59Z", "", "not-a-date"}
NewDate(str) ==
  CASE str = "2024-03-15T10:30:00Z" -> [valid |-> TRUE, year |-> 2024, month |-> 3]
    [] str = "2023-12-31T23:59:59Z" -> [valid |-> TRUE, year |-> 2023, month |-> 12]
    [] OTHER -> NoDate

\* a column the record does not have (undefined), and the TypeError that a
\* method call on undefined throws
Undefined == "<undefined>"
TypeError == "<TypeError>"

\* Falsy taking only an absent column for missing
FalsyUndefinedOnly(str) == str = Undefined

\* !x for a column x: true for undefined and for the empty string
Falsy(str) == str \in {"", Undefined}

\* String.prototype.trim on the columns that occur in the files
Trim(str) ==
  CASE str = " APP " -> "APP"
    [] str = "   " -> ""
    [] OTHER -> str

\* x.trim() without the optional chaining
PlainTrim(str) == IF str = Undefined THEN TypeError ELSE Trim(str)

\* x?.trim(): undefined for an absent column
OptTrim(str) == IF str = Undefined THEN Undefined ELSE Trim(str)

\* the text of an event_id column as UUID_REGEX sees it: the lengths of its
\* groups between hyphens and the case of its characters ("other": not all
\* of them are hex digits)
UuidGroups == <<8, 4, 4, 4, 12>>
UuidText(e) ==
  CASE e \in Ids -> [groups |-> UuidGroups, digits |-> "lower"]
    [] e - UpperCase \in Ids -> [groups |-> UuidGroups, digits |-> "upper"]
    [] e - MixedCase \in Ids -> [groups |-> UuidGroups, digits |-> "mixed"]
    [] e = NonHexId -> [groups |-> UuidGroups, digits |-> "other"]
    [] e = ShortId -> [groups |-> <<8, 4, 4, 4, 11>>, digits |-> "lower"]
    [] OTHER -> [groups |-> <<3, 1, 4>>, digits |-> "other"]

\* UUID_REGEX without the i flag
UuidTestCaseSensitive(e) ==
  UuidText(e).groups = UuidGroups /\ UuidText(e).digits = "lower"

\* UUID_REGEX.test(event_id): /^[0-9a-f]{8}-[0-9a-f]{4}-...-[0-9a-f]{12}$/i
UuidTest(e) ==
  UuidText(e).groups = UuidGroups /\ UuidText(e).digits \in {"lower", "upper", "mixed"}

\* what a column of type uuid stores for an accepted event_id: the value in
\* lower case
Canonical(e) ==
  IF e > MixedCase THEN e - MixedCase ELSE IF e > UpperCase THEN e - UpperCase ELSE e

\* the merchant_id columns that occur in the files, and MERCHANT_ID_REGEX.test
\* (/^MRC-\d{6}$/) on them
Merchants == {"MRC-123456", "MRC-000001", "MRC-000002", "MRC-12345", "M1"}
MerchantTest(str) == str \in {"MRC-123456", "MRC-000001", "MRC-000002"}

\* the skip signal of validate (null)
Null ==
  [event_id |-> BadId, merchant_id |-> "", event_timestamp |-> NoDate, product |-> "",
   event_type |-> "", amount |-> 0, status |-> "", channel |-> NullText,
   region |-> NullText, merchant_tier |-> NullText, payload |-> <<>>]

\* a well-formed CSV record with event_id e; payload stands for what else
\* tells the lines of the files apart: the file and the line it is read from
RawRow(e, f, k) ==
  [event_id |-> e, merchant_id |-> "MRC-123456",
   event_timestamp |-> "2024-03-15T10:30:00Z", product |-> "POS",
   event_type |-> "CARD_TRANSACTION", amount |-> "1500.00", status |-> "SUCCESS",
   channel |-> "POS", region |-> "Lagos", merchant_tier |-> "VERIFIED",
   payload |-> <<f, k>>]

\* no record: the file content is not given (the parser's records are the
\* inputs of the read steps)
NoRecord == RawRow(NoId, 0, 0)

\* Math.max(0, x)
Max0(x) == IF x > 0 THEN x ELSE 0

\* CleanAmount without the clamp of line 406
CleanAmountUnclamped(str) ==
  LET parsedAmount == parseFloat(str)
  IN IF parsedAmount.nan THEN 0 ELSE parsedAmount.val

\* validate, lines 378-379 and 406: NaN becomes 0, a negative amount 0
CleanAmount(str) ==
  LET parsedAmount == parseFloat(str)
      safeAmount == IF parsedAmount.nan THEN 0 ELSE parsedAmount.val
  IN Max0(safeAmount)

\* validate, lines 364 and 371: x?.trim() || null
SafeOption(str) == IF Falsy(OptTrim(str)) THEN NullText ELSE OptTrim(str)

\* validate, lines 364-375 and 408-410: an optional column is trimmed, and is
\* null when it is absent, empty or not a member of the allowed set
CleanOption(str, allowed) ==
  IF SafeOption(str) # NullText /\ SafeOption(str) \in allowed
  THEN SafeOption(str) ELSE NullText

\* validate, lines 386-398: null for an absent, empty or unparseable timestamp
CleanTimestamp(str) ==
  IF Falsy(OptTrim(str)) THEN NoDate ELSE NewDate(str)

\* SkipReason with the product checked before the UUID
SkipReasonProductFirst(record) ==
  IF \/ record.event_id \in {EmptyId, NoId}
     \/ Falsy(record.merchant_id)
     \/ Falsy(record.product)
     \/ Falsy(record.event_type)
     \/ Falsy(record.status)
  THEN "missingFields"
  ELSE IF record.product \notin VALID_PRODUCTS THEN "invalidProduct"
  ELSE IF ~UuidTest(record.event_id) THEN "invalidUUID"
  ELSE IF record.status \notin VALID_STATUSES THEN "invalidStatus"
  ELSE "none"

\* SkipReason without the status check of lines 351-355
SkipReasonNoStatus(record) ==
  IF \/ record.event_id \in {EmptyId, NoId}
     \/ Falsy(record.merchant_id)
     \/ Falsy(record.product)
     \/ Falsy(record.event_type)
     \/ Falsy(record.status)
  THEN "missingFields"
  ELSE IF ~UuidTest(record.event_id) THEN "invalidUUID"
  ELSE IF record.product \notin VALID_PRODUCTS THEN "invalidProduct"
  ELSE "none"

\* validate, lines 330-355: the counter of the check that makes validate
\* return null, "none" for a row that passes the four checks
SkipReason(record) ==
  IF \/ record.event_id \in {EmptyId, NoId}
     \/ Falsy(record.merchant_id)
     \/ Falsy(record.product)
     \/ Falsy(record.event_type)
     \/ Falsy(record.status)
  THEN "missingFields"
  ELSE IF ~UuidTest(record.event_id) THEN "invalidUUID"
  ELSE IF record.product \notin VALID_PRODUCTS THEN "invalidProduct"
  ELSE IF record.status \notin VALID_STATUSES THEN "invalidStatus"
  ELSE "none"

\* NegativeAmount testing the amount after the clamp
NegativeAmountClamped(str) == CleanAmount(str) < 0

\* validate, line 380: parsedAmount < 0 (false for NaN)
NegativeAmount(str) == ~parseFloat(str).nan /\ parseFloat(str).val < 0

\* Warnings without the channel and tier warnings
WarningsNoOption(record) ==
  {k \in {"invalidMerchantId"} : ~MerchantTest(record.merchant_id)}
  \cup {k \in {"negativeAmount"} : NegativeAmount(record.amount)}
  \cup {k \in {"suspiciousDate"} :
          /\ CleanTimestamp(record.event_timestamp).valid
          /\ CleanTimestamp(record.event_timestamp).year # DATA_YEAR}

\* validate, lines 357-398: the counters of the warnings a row that is not
\* skipped raises
Warnings(record) ==
  {k \in {"invalidMerchantId"} : ~MerchantTest(record.merchant_id)}
  \cup {k \in {"invalidChannel"} :
          SafeOption(record.channel) \notin VALID_CHANNELS \cup {NullText}}
  \cup {k \in {"invalidTier"} :
          SafeOption(record.merchant_tier) \notin VALID_TIERS \cup {NullText}}
  \cup {k \in {"negativeAmount"} : NegativeAmount(record.amount)}
  \cup {k \in {"suspiciousDate"} :
          /\ CleanTimestamp(record.event_timestamp).valid
          /\ CleanTimestamp(record.event_timestamp).year # DATA_YEAR}

\* ValidationService.stats as the constructor leaves it, lines 292-303
ZeroStats ==
  [total |-> 0, missingFields |-> 0, invalidUUID |-> 0, invalidMerchantId |-> 0,
   invalidProduct |-> 0, invalidStatus |-> 0, invalidChannel |-> 0, invalidTier |-> 0,
   negativeAmount |-> 0, suspiciousDate |-> 0]

\* the stats after validate(record): total, and the counter of the skip or
\* those of the warnings, are one higher
Counted(st, record) ==
  LET hit == {"total"} \cup (IF SkipReason(record) # "none"
                            THEN {SkipReason(record)} ELSE Warnings(record))
  IN [k \in DOMAIN st |-> IF k \in hit THEN st[k] + 1 ELSE st[k]]

\* what validate would throw: a TypeError of one of its method calls
Thrown == [Null EXCEPT !.merchant_id = TypeError]

\* ValidationService.validate: the clean row, or Null for a row that lacks a
\* required column or has an event_id, product or status that is not valid
validate(record, rowNumber) ==
  IF SkipReason(record) # "none" THEN Null
  ELSE IF TypeError \in {OptTrim(record.channel), OptTrim(record.merchant_tier),
                         OptTrim(record.event_timestamp), OptTrim(record.region)}
  THEN Thrown
  ELSE [event_id |-> record.event_id,
        merchant_id |-> record.merchant_id,
        event_timestamp |-> CleanTimestamp(record.event_timestamp),
        product |-> record.product,
        event_type |-> record.event_type,
        amount |-> CleanAmount(record.amount),
        status |-> record.status,
        channel |-> CleanOption(record.channel, VALID_CHANNELS),
        region |-> SafeOption(record.region),
        merchant_tier |-> CleanOption(record.merchant_tier, VALID_TIERS),
        payload |-> record.payload]

(***************************************************************************)
(* The record store: table activities with primary key event_id.           *)
(***************************************************************************)
HasKey(table, e) == \E r \in table : r.event_id = e

\* InsertRow as ON CONFLICT DO UPDATE would behave (.orUpdate for .orIgnore)
InsertRowUpsert(table, row) ==
  {r \in table : r.event_id # Canonical(row.event_id)}
  \cup {[row EXCEPT !.event_id = Canonical(row.event_id)]}

\* one row of INSERT ... ON CONFLICT DO NOTHING (.orIgnore()): a row whose
\* event_id is already in the table is ignored; the uuid column holds the
\* event_id in lower case
InsertRow(table, row) ==
  IF HasKey(table, Canonical(row.event_id)) THEN table
  ELSE table \cup {[row EXCEPT !.event_id = Canonical(row.event_id)]}

\* .insert().values(batch).orIgnore().execute(): the rows in statement order
RECURSIVE InsertOrIgnore(_, _)
InsertOrIgnore(table, rows) ==
  IF rows = <<>> THEN table
  ELSE InsertOrIgnore(InsertRow(table, Head(rows)), Tail(rows))

PkIndex == "activities_pkey"
\* the indexes TypeORM synchronize creates from the entity's @Index decorators
EntityIndexes == {"IDX_entity_1", "IDX_entity_2", "IDX_entity_3", "IDX_entity_4", "IDX_entity_5"}
\* the indexes rebuildIndexes creates
NamedIndexes == {"IDX_status_product", "IDX_merchant_id", "IDX_event_timestamp",
                 "IDX_merchant_status_product", "IDX_timestamp_status"}
\* rebuildIndexes, lines 377-383: its queries in the order they are run
RebuildQueries == <<"IDX_status_product", "IDX_merchant_id", "IDX_event_timestamp",
                    "IDX_merchant_status_product", "IDX_timestamp_status">>

\* SecondaryIndexes with a pattern that also excludes the entity's indexes
SecondaryIndexesNamedOnly(ix) == ix \cap NamedIndexes

\* dropIndexes, lines 361-366: the names of the indexes of activities that are
\* not LIKE 'PK_%' and not LIKE '%_pkey'
SecondaryIndexes(ix) == {x \in ix : x # PkIndex}

\* CREATE INDEX without IF NOT EXISTS: an existing name is an error
CreateIndexPlain(ix, name) == [indexes |-> ix \cup {name}, error |-> name \in ix]

\* CREATE INDEX IF NOT EXISTS name: an existing name is skipped with a notice
CreateIndexIfNotExists(ix, name) == [indexes |-> ix \cup {name}, error |-> FALSE]

VARIABLES
  store,            \* rows of table activities
  indexes,          \* names of the indexes on activities
  toDrop,           \* dropIndexes: the index names its SELECT returned, not yet dropped
  rebuilt,          \* rebuildIndexes: the number of its queries that have run
  pc,               \* position of importAll
  files,            \* importAll: the matching files of DATA_DIR, sorted
  nonEmptyFiles,    \* importAll: the files to import
  i,                \* importAll: 0-based index of the first file of the current group
  failure,          \* the error importAll rejected with
  totalImported, totalSkipped, isComplete,   \* IngestionService fields
  imp,              \* per file: the locals of importFile, flush and withRetry
  rowsRead,         \* rows the parsers have yielded so far
  writeFailures,    \* bulk-write attempts that have failed so far
  stats,            \* ValidationService.stats
  pending,          \* the record the CSV parser yields next, where the file content is given
  cache, isReady, precomputeAttempts,        \* AnalyticsService fields
  cached,           \* AnalyticsService.cache: the result each slot holds
  apc,              \* position of precompute()
  queryCalls,       \* dataSource.query calls made by the current precompute() call
  response,         \* the last response of an analytics endpoint
  listening         \* app.listen has been called: the server accepts connections

ingestVars == <<store, indexes, toDrop, rebuilt, pc, files, nonEmptyFiles, i, failure, totalImported,
                totalSkipped, isComplete, imp, rowsRead, writeFailures, stats>>
analyticsVars == <<cache, isReady, precomputeAttempts, cached, apc, queryCalls>>
vars == <<ingestVars, analyticsVars, response, listening, pending>>

(***************************************************************************)
(* Helpers.                                                                *)
(***************************************************************************)
Min(a, b) == IF a < b THEN a ELSE b

RECURSIVE SortedSeq(_)
SortedSeq(S) ==
  IF S = {} THEN <<>>
  ELSE LET m == CHOOSE x \in S : \A y \in S : x <= y
       IN <<m>> \o SortedSeq(S \ {m})

Range(q) == {q[k] : k \in 1..Len(q)}

\* Slice taking one file more than the limit
SliceWide(q, i0) == SubSeq(q, i0 + 1, Min(i0 + CONCURRENT_FILE_IMPORTS + 1, Len(q)))

\* nonEmptyFiles.slice(i0, i0 + CONCURRENT_FILE_IMPORTS)
Slice(q, i0) == SubSeq(q, i0 + 1, Min(i0 + CONCURRENT_FILE_IMPORTS, Len(q)))

\* SumOf with the updates of all files but the last one lost
SumOfLast(q, field) == IF q = <<>> THEN 0 ELSE imp[q[Len(q)]][field]

RECURSIVE SumOf(_, _)
SumOf(q, field) ==
  IF q = <<>> THEN 0 ELSE imp[Head(q)][field] + SumOf(Tail(q), field)

NoError == [file |-> 0, kind |-> "none", attempt |-> 0]
WriteError(f, n) == [file |-> f, kind |-> "write", attempt |-> n]
ParseFailure(f) == [file |-> f, kind |-> "parse", attempt |-> 0]
ValidateFailure(f) == [file |-> f, kind |-> "validate", attempt |-> 0]
IndexError == [file |-> 0, kind |-> "index", attempt |-> 0]

\* the locals of importFile before its first row
FreshImport(p) ==
  [pc |-> p, rowNumber |-> 0, chunk |-> <<>>, batch |-> <<>>, imported |-> 0,
   skipped |-> 0, attempt |-> 0, delay |-> 0, lastError |-> NoError,
   atEnd |-> FALSE, thrown |-> NoError]

\* importFile has rejected with err; its locals are gone
Rejected(err) == [FreshImport("failed") EXCEPT !.thrown = err]

\* the result of importFile has been consumed by importAll
Collected == FreshImport("collected")

(***************************************************************************)
(* AnalyticsService.                                                       *)
(***************************************************************************)
Slots == {"topMerchant", "monthlyActiveMerchants", "productAdoption", "kycFunnel",
          "failureRates"}
\* a cache slot no pass has written (cache null, or the key missing)
Absent == 0
Outcomes == [Slots -> {"fulfilled", "rejected"}]

\* null for the top merchant
NullMerchant == [merchant_id |-> NullText, total_volume |-> 0]

\* the rows WHERE status = 'SUCCESS' selects
SuccessRows(table) == {r \in table : r.status = "SUCCESS"}

\* SUM(amount) over a group of rows
RECURSIVE SumAmount(_)
SumAmount(rows) ==
  IF rows = {} THEN 0
  ELSE LET r == CHOOSE x \in rows : TRUE
       IN r.amount + SumAmount(rows \ {r})

\* COUNT(DISTINCT merchant_id) over a group of rows
CountMerchants(rows) == Cardinality({r.merchant_id : r \in rows})

\* the place of a merchant_id of Merchants in ORDER BY merchant_id ASC
MerchantRank(m) ==
  CASE m = "M1" -> 1
    [] m = "MRC-000001" -> 2
    [] m = "MRC-000002" -> 3
    [] m = "MRC-12345" -> 4
    [] m = "MRC-123456" -> 5

\* queryTopMerchant ordered by total_volume only, where the database returns
\* the last of the merchants with the largest total
queryTopMerchantNoTieBreak(table) ==
  LET rows == SuccessRows(table)
      total(m) == SumAmount({r \in rows : r.merchant_id = m})
      ms == {r.merchant_id : r \in rows}
      top == {m \in ms : \A o \in ms : total(m) >= total(o)}
      first == CHOOSE m \in top : \A o \in top : MerchantRank(m) >= MerchantRank(o)
  IN IF rows = {} THEN NullMerchant
     ELSE [merchant_id |-> first, total_volume |-> total(first)]

\* queryTopMerchant, lines 138-153: GROUP BY merchant_id over the SUCCESS
\* rows, ORDER BY total_volume DESC, merchant_id ASC, LIMIT 1
queryTopMerchant(table) ==
  LET rows == SuccessRows(table)
      total(m) == SumAmount({r \in rows : r.merchant_id = m})
      ms == {r.merchant_id : r \in rows}
      top == {m \in ms : \A o \in ms : total(m) >= total(o)}
      first == CHOOSE m \in top : \A o \in top : MerchantRank(m) <= MerchantRank(o)
  IN IF rows = {} THEN NullMerchant
     ELSE [merchant_id |-> first, total_volume |-> total(first)]

\* TO_CHAR(event_timestamp, 'YYYY-MM')
MonthOf(r) == <<r.event_timestamp.year, r.event_timestamp.month>>

\* queryMonthlyActiveMerchants without the IS NOT NULL test: the rows without
\* timestamp form the group of month null
queryMonthlyActiveMerchantsWithNull(table) ==
  LET rows == SuccessRows(table)
  IN [m \in {MonthOf(r) : r \in rows} |->
        CountMerchants({r \in rows : MonthOf(r) = m})]

\* queryMonthlyActiveMerchants, lines 155-174: the distinct merchants of the
\* SUCCESS rows with a timestamp, by month
queryMonthlyActiveMerchants(table) ==
  LET rows == {r \in SuccessRows(table) : r.event_timestamp # NoDate}
  IN [m \in {MonthOf(r) : r \in rows} |->
        CountMerchants({r \in rows : MonthOf(r) = m})]

\* queryProductAdoption, lines 176-191: the distinct merchants of all rows, by
\* product
queryProductAdoption(table) ==
  [p \in {r.product : r \in table} |-> CountMerchants({r \in table : r.product = p})]

\* queryKycFunnel with COUNT(*) in place of COUNT(DISTINCT merchant_id)
queryKycFunnelCountRows(table) ==
  LET count(t) == Cardinality({r \in SuccessRows(table) :
                                 r.product = "KYC" /\ r.event_type = t})
  IN [documents_submitted |-> count("DOCUMENT_SUBMITTED"),
      verifications_completed |-> count("VERIFICATION_COMPLETED"),
      tier_upgrades |-> count("TIER_UPGRADE")]

\* queryKycFunnel, lines 193-212: the distinct merchants of the SUCCESS rows of
\* product KYC, by event_type
queryKycFunnel(table) ==
  LET count(t) == CountMerchants({r \in SuccessRows(table) :
                                    r.product = "KYC" /\ r.event_type = t})
  IN [documents_submitted |-> count("DOCUMENT_SUBMITTED"),
      verifications_completed |-> count("VERIFICATION_COMPLETED"),
      tier_upgrades |-> count("TIER_UPGRADE")]

\* ROUND(a * 100.0 / b, 1) for b > 0, in tenths of a percent
RoundedRate(a, b) == (2000 * a + b) \div (2 * b)

\* GROUP BY product over `rows`: one entry per product, with the share of its
\* FAILED rows (NULLIF never meets 0: a group has a row)
RateEntries(rows) ==
  {[product |-> p,
    failure_rate |->
      RoundedRate(Cardinality({r \in rows : r.product = p /\ r.status = "FAILED"}),
                  Cardinality({r \in rows : r.product = p}))] :
     p \in {r.product : r \in rows}}

\* ORDER BY failure_rate DESC: entries of equal rate come in the order the
\* database picks
RECURSIVE OrderByRateDesc(_)
OrderByRateDesc(entries) ==
  IF entries = {} THEN <<>>
  ELSE LET first == CHOOSE x \in entries :
                      \A o \in entries : x.failure_rate >= o.failure_rate
       IN <<first>> \o OrderByRateDesc(entries \ {first})

\* queryFailureRates without the WHERE clause: PENDING rows form groups and
\* count in the denominator
queryFailureRatesAllStatuses(table) == OrderByRateDesc(RateEntries(table))

\* queryFailureRates, lines 214-233: the share of FAILED rows among the
\* SUCCESS and FAILED rows, by product, sorted by failure_rate
queryFailureRates(table) ==
  OrderByRateDesc(RateEntries({r \in table : r.status \in {"SUCCESS", "FAILED"}}))

\* the query of a slot, lines 35-39
Query(s, table) ==
  CASE s = "topMerchant" -> queryTopMerchant(table)
    [] s = "monthlyActiveMerchants" -> queryMonthlyActiveMerchants(table)
    [] s = "productAdoption" -> queryProductAdoption(table)
    [] s = "kycFunnel" -> queryKycFunnel(table)
    [] s = "failureRates" -> queryFailureRates(table)

\* Default with getKycFunnel returning the absent slot as it is
DefaultUnsetFunnel(s) ==
  CASE s = "topMerchant" -> NullMerchant
    [] OTHER -> <<>>

\* what the getter of a slot returns while the slot is absent, lines 90-118
Default(s) ==
  CASE s = "topMerchant" -> NullMerchant
    [] s = "kycFunnel" ->
         [documents_submitted |-> 0, verifications_completed |-> 0, tier_upgrades |-> 0]
    [] OTHER -> <<>>

\* SlotAfter with the cache rebuilt from scratch in every pass
SlotAfterRebuilt(old, status, n) == IF status = "fulfilled" THEN n ELSE Absent

\* precompute(), lines 44-72: the slot of a fulfilled query takes the result of
\* this pass (named by the pass number n), the slot of a rejected one is kept
SlotAfter(old, status, n) == IF status = "fulfilled" THEN n ELSE old

\* ReadyAfter with readiness granted only to a pass with a fulfilled query
ReadyAfterSomeOk(outcome) == \E s \in Slots : outcome[s] = "fulfilled"

\* ReadyAfter with readiness granted only to a pass without a failure
ReadyAfterAllOk(outcome) == \A s \in Slots : outcome[s] = "fulfilled"

\* precompute(), line 75
ReadyAfter(outcome) == TRUE

\* getTopMerchant .. getFailureRates: cache?.slot ?? default
Getter(s) ==
  IF cache[s] = Absent
  THEN [kind |-> "default", slot |-> s, pass |-> 0, value |-> Default(s)]
  ELSE [kind |-> "result", slot |-> s, pass |-> cache[s], value |-> cached[s]]

\* canActivate without the readiness test
canActivateAlways == TRUE

\* AnalyticsReadyGuard.canActivate: TRUE, or throws ServiceUnavailableException
canActivate == isReady

NoResponse == [endpoint |-> "none", status |-> 0,
               body |-> [kind |-> "none", slot |-> "none", pass |-> 0, value |-> <<>>]]

\* precompute(), lines 27-40: up to the await of Promise.allSettled
PrecomputeBegin ==
  /\ precomputeAttempts' = precomputeAttempts + 1
  /\ queryCalls' = Cardinality(Slots)
  /\ apc' = "awaiting"
  /\ UNCHANGED <<cache, isReady, cached>>

\* precompute(), lines 42-87: the five queries have settled with `outcome`
PrecomputeSettle(outcome) ==
  /\ apc = "awaiting"
  /\ cache' = [s \in Slots |-> SlotAfter(cache[s], outcome[s], precomputeAttempts)]
  /\ cached' = [s \in Slots |->
                  IF outcome[s] = "fulfilled" THEN Query(s, store) ELSE cached[s]]
  /\ isReady' = ReadyAfter(outcome)
  /\ apc' = "idle"
  /\ pc' = IF pc = "precompute" THEN "resolved" ELSE pc
  \* the two counters bound the imports of a run; the run is over
  /\ rowsRead' = IF pc = "precompute" THEN 0 ELSE rowsRead
  /\ writeFailures' = IF pc = "precompute" THEN 0 ELSE writeFailures
  /\ UNCHANGED <<precomputeAttempts, queryCalls, response, listening, pending, stats>>
  /\ UNCHANGED <<store, indexes, toDrop, rebuilt, files, nonEmptyFiles, i, failure, totalImported,
                 totalSkipped, isComplete, imp>>

\* GET /analytics/<s>: the class-level guard, then the handler
Request(s) ==
  /\ response' =
       IF canActivate
       THEN [endpoint |-> s, status |-> 200, body |-> Getter(s)]
       ELSE [endpoint |-> s, status |-> 503,
             body |-> [kind |-> "error", slot |-> s, pass |-> 0, value |-> <<>>]]
  /\ UNCHANGED <<ingestVars, analyticsVars, listening, pending>>

\* a caller of the service (a test, a second run) calls precompute()
CallPrecompute ==
  /\ apc = "idle"
  /\ precomputeAttempts < MaxPasses
  /\ PrecomputeBegin
  /\ UNCHANGED <<ingestVars, response, listening, pending>>

(***************************************************************************)
(* IngestionService.withRetry.                                             *)
(***************************************************************************)
\* LoopGuard off by one
LoopGuardOneMore(attempt) == attempt <= MAX_RETRIES + 1

\* RetryDelay without the attempt factor
RetryDelayFlat(attempt) == RETRY_DELAY_MS

\* line 401: the loop condition attempt <= retries
LoopGuard(attempt) == attempt <= MAX_RETRIES

\* line 406: a wait follows a failed attempt only if another attempt follows
WaitsAfter(attempt) == attempt < MAX_RETRIES

\* line 407
RetryDelay(attempt) == RETRY_DELAY_MS * attempt

\* lines 401-416 after attempt n of file f has failed and any wait is over:
\* attempt++ and the loop test; operation() is called again, or lastError thrown
NextAttempt(f, l) ==
  IF LoopGuard(l.attempt + 1)
  THEN [l EXCEPT !.pc = "writing", !.attempt = l.attempt + 1, !.delay = 0]
  ELSE Rejected(l.lastError)

\* Propagate with the rejection of importFile swallowed
PropagateNothing(f, l) == UNCHANGED <<pc, failure>>

\* a rejection of importFile(f) rejects Promise.all and with it importAll,
\* which onApplicationBootstrap catches and logs; a later rejection is dropped
Propagate(f, l) ==
  IF l.pc = "failed" /\ pc = "awaitGroup"
  THEN pc' = "rejected" /\ failure' = l.thrown
  ELSE UNCHANGED <<pc, failure>>

(***************************************************************************)
(* IngestionService.importFile.                                            *)
(***************************************************************************)
\* Flush with the parser left running while the bulk write is in flight
FlushNoPause(l, atEnd) ==
  IF l.chunk = <<>>
  THEN [l EXCEPT !.pc = IF atEnd THEN "done" ELSE "reading"]
  ELSE [l EXCEPT !.pc = IF atEnd THEN "writing" ELSE "reading", !.batch = l.chunk,
                 !.chunk = <<>>, !.attempt = 1, !.atEnd = atEnd]

\* Flush with the batch copied from the chunk (slice) and the chunk left as
\* it is
FlushKeepsChunk(l, atEnd) ==
  IF l.chunk = <<>>
  THEN [l EXCEPT !.pc = IF atEnd THEN "done" ELSE "reading"]
  ELSE [l EXCEPT !.pc = "writing", !.batch = l.chunk, !.attempt = 1, !.atEnd = atEnd]

\* flush, lines 313-324: the chunk becomes the batch and withRetry makes its
\* first attempt; an empty chunk returns at once
Flush(l, atEnd) ==
  IF l.chunk = <<>>
  THEN [l EXCEPT !.pc = IF atEnd THEN "done" ELSE "reading"]
  ELSE [l EXCEPT !.pc = "writing", !.batch = l.chunk, !.chunk = <<>>,
                 !.attempt = 1, !.atEnd = atEnd]

\* lines 338-351: the parser yields the next record, which is line
\* rowNumber of file f
ReadRecord(f, record) ==
  /\ imp[f].pc = "reading"
  /\ rowsRead < MaxRows
  /\ rowsRead' = rowsRead + 1
  /\ stats' = Counted(stats, record)
  /\ LET l   == imp[f]
         n   == l.rowNumber + 1
         row == validate([record EXCEPT !.payload = <<f, n>>], n)
         l1  == [l EXCEPT !.rowNumber = n]
         l3  == IF row = Thrown THEN Rejected(ValidateFailure(f))
                ELSE IF row = Null THEN [l1 EXCEPT !.skipped = l.skipped + 1]
                ELSE LET l2 == [l1 EXCEPT !.chunk = Append(l.chunk, row)]
                     IN IF Len(l2.chunk) >= BATCH_SIZE THEN Flush(l2, FALSE) ELSE l2
     IN /\ imp' = [imp EXCEPT ![f] = l3]
        /\ Propagate(f, l3)
  /\ UNCHANGED <<store, indexes, toDrop, rebuilt, files, nonEmptyFiles, i,
                 totalImported, totalSkipped, isComplete, writeFailures, analyticsVars,
                 response, listening>>

\* the next record is well formed but for its event_id e
ReadRow(f, e) == ReadRecord(f, RawRow(e, f, 0)) /\ UNCHANGED pending

\* lines 352-355: the parser ends; the last partial chunk is flushed
EndOfFile(f) ==
  /\ imp[f].pc = "reading"
  /\ imp' = [imp EXCEPT ![f] = Flush(imp[f], TRUE)]
  /\ UNCHANGED <<store, indexes, toDrop, rebuilt, pc, files, nonEmptyFiles, i, failure, totalImported,
                 totalSkipped, isComplete, rowsRead, writeFailures, analyticsVars,
                 response, listening, pending, stats>>

\* line 338: the stream or the CSV parser raises an error
ParseError(f) ==
  /\ imp[f].pc = "reading"
  /\ LET l == Rejected(ParseFailure(f))
     IN /\ imp' = [imp EXCEPT ![f] = l]
        /\ Propagate(f, l)
  /\ UNCHANGED <<store, indexes, toDrop, rebuilt, files, nonEmptyFiles, i, totalImported,
                 totalSkipped, isComplete, rowsRead, writeFailures, analyticsVars,
                 response, listening, pending, stats>>

\* Written with imported raised by one per bulk write
WrittenCountsWrites(l) ==
  [l EXCEPT !.pc = IF l.atEnd THEN "done" ELSE "reading",
            !.imported = l.imported + 1,
            !.batch = <<>>, !.attempt = 0, !.lastError = NoError]

\* lines 403 and 325: withRetry returns the result of the attempt, flush adds
\* the batch to the count, and importFile reads on or returns its counts
Written(l) ==
  [l EXCEPT !.pc = IF l.atEnd THEN "done" ELSE "reading",
            !.imported = l.imported + Len(l.batch),
            !.batch = <<>>, !.attempt = 0, !.lastError = NoError]

\* lines 316-325 and 403: the bulk write of the batch succeeds
WriteOk(f) ==
  /\ imp[f].pc = "writing"
  /\ store' = InsertOrIgnore(store, imp[f].batch)
  /\ imp' = [imp EXCEPT ![f] = Written(imp[f])]
  /\ UNCHANGED <<indexes, toDrop, rebuilt, pc, files, nonEmptyFiles, i, failure, totalImported,
                 totalSkipped, isComplete, rowsRead, writeFailures, analyticsVars,
                 response, listening, pending, stats>>

\* lines 404-412: the bulk write fails (the statement did not run, or it ran
\* and its acknowledgement was lost)
WriteFail(f, applied) ==
  /\ imp[f].pc = "writing"
  /\ writeFailures < MaxFailures
  /\ writeFailures' = writeFailures + 1
  /\ store' = IF applied THEN InsertOrIgnore(store, imp[f].batch) ELSE store
  /\ LET l0 == [imp[f] EXCEPT !.lastError = WriteError(f, imp[f].attempt)]
         l  == IF WaitsAfter(l0.attempt)
               THEN [l0 EXCEPT !.pc = "waiting", !.delay = RetryDelay(l0.attempt)]
               ELSE NextAttempt(f, l0)
     IN /\ imp' = [imp EXCEPT ![f] = l]
        /\ Propagate(f, l)
  /\ UNCHANGED <<indexes, toDrop, rebuilt, files, nonEmptyFiles, i, totalImported,
                 totalSkipped, isComplete, rowsRead, analyticsVars, response, listening, pending, stats>>

\* line 411: the timer of the wait fires
RetryWake(f) ==
  /\ imp[f].pc = "waiting"
  /\ LET l == NextAttempt(f, imp[f])
     IN /\ imp' = [imp EXCEPT ![f] = l]
        /\ Propagate(f, l)
  /\ UNCHANGED <<store, indexes, toDrop, rebuilt, files, nonEmptyFiles, i, totalImported,
                 totalSkipped, isComplete, rowsRead, writeFailures, analyticsVars,
                 response, listening, pending, stats>>

(***************************************************************************)
(* IngestionService.importAll.                                             *)
(***************************************************************************)
\* line 270-274: the imports of the group at index i0 are started together
Launch(q, i0) ==
  [f \in AllFiles |->
     IF f \in Range(Slice(q, i0)) THEN FreshImport("reading")
     ELSE IF imp[f].pc = "done" THEN Collected
     ELSE imp[f]]

\* onApplicationBootstrap and lines 238-258: a missing directory or one without
\* a matching file ends the run at once
ImportAllStart(dirExists, listing) ==
  /\ pc = "start"
  /\ IF ~dirExists \/ listing = {}
     THEN /\ isComplete' = TRUE
          /\ pc' = "returned"
          /\ UNCHANGED files
     ELSE /\ files' = SortedSeq(listing)
          /\ pc' = "dropIndexes"
          /\ UNCHANGED isComplete
  /\ UNCHANGED <<store, indexes, toDrop, rebuilt, nonEmptyFiles, i, failure, totalImported,
                 totalSkipped, imp, rowsRead, writeFailures, analyticsVars, response, listening, pending, stats>>

\* line 260 and dropIndexes, lines 361-366: the SELECT of the index names
DropIndexes ==
  /\ pc = "dropIndexes"
  /\ toDrop' = SecondaryIndexes(indexes)
  /\ pc' = "dropping"
  /\ UNCHANGED <<store, indexes, rebuilt, files, nonEmptyFiles, i, failure, totalImported,
                 totalSkipped, isComplete, imp, rowsRead, writeFailures, analyticsVars,
                 response, listening, pending, stats>>

\* dropIndexes, lines 368-370: DROP INDEX IF EXISTS for one of the names, in
\* the order the SELECT returned them
DropIndex(x) ==
  /\ pc = "dropping"
  /\ x \in toDrop
  /\ indexes' = indexes \ {x}
  /\ toDrop' = toDrop \ {x}
  /\ UNCHANGED <<store, rebuilt, pc, files, nonEmptyFiles, i, failure, totalImported,
                 totalSkipped, isComplete, imp, rowsRead, writeFailures, analyticsVars,
                 response, listening, pending, stats>>

\* lines 261-274: dropIndexes has returned; the files of size 0 are filtered
\* out and the first group is started
StartImports(empty) ==
  /\ pc = "dropping"
  /\ toDrop = {}
  /\ LET q == SelectSeq(files, LAMBDA f : f \notin empty)
     IN /\ nonEmptyFiles' = q
        /\ i' = 0
        /\ IF 0 < Len(q)
           THEN pc' = "awaitGroup" /\ imp' = Launch(q, 0)
           ELSE pc' = "rebuild" /\ UNCHANGED imp
  /\ UNCHANGED <<store, indexes, toDrop, rebuilt, files, failure, totalImported,
                 totalSkipped, isComplete, rowsRead, writeFailures, analyticsVars,
                 response, listening, pending, stats>>

\* lines 272-283: every import of the group has fulfilled; the counts are
\* added up and the next group is started
GroupDone ==
  /\ pc = "awaitGroup"
  /\ \A f \in Range(Slice(nonEmptyFiles, i)) : imp[f].pc = "done"
  /\ totalImported' = totalImported + SumOf(Slice(nonEmptyFiles, i), "imported")
  /\ totalSkipped' = totalSkipped + SumOf(Slice(nonEmptyFiles, i), "skipped")
  /\ i' = i + CONCURRENT_FILE_IMPORTS
  /\ IF i + CONCURRENT_FILE_IMPORTS < Len(nonEmptyFiles)
     THEN pc' = "awaitGroup" /\ imp' = Launch(nonEmptyFiles, i + CONCURRENT_FILE_IMPORTS)
     ELSE pc' = "rebuild" /\ imp' = Launch(<<>>, 0)
  /\ UNCHANGED <<store, indexes, toDrop, rebuilt, files, nonEmptyFiles, failure, isComplete,
                 rowsRead, writeFailures, analyticsVars, response, listening, pending, stats>>

\* line 285 and rebuildIndexes, lines 385-387: the next query of the list is
\* run; a failing query rejects importAll; after the last one the rows are counted
RebuildIndexes ==
  /\ pc = "rebuild"
  /\ LET r == CreateIndexIfNotExists(indexes, RebuildQueries[rebuilt + 1])
     IN IF r.error
        THEN /\ pc' = "rejected"
             /\ failure' = IndexError
             /\ UNCHANGED <<indexes, rebuilt>>
        ELSE /\ indexes' = r.indexes
             /\ rebuilt' = rebuilt + 1
             /\ pc' = IF rebuilt + 1 = Len(RebuildQueries) THEN "count" ELSE "rebuild"
             /\ UNCHANGED failure
  /\ UNCHANGED <<store, toDrop, files, nonEmptyFiles, i, totalImported, totalSkipped,
                 isComplete, imp, rowsRead, writeFailures, analyticsVars, response,
                 listening, pending, stats>>

\* rebuildIndexes is called again on the store it has just indexed
CallRebuildIndexes ==
  /\ pc = "count"
  /\ pc' = "rebuild"
  /\ rebuilt' = 0
  /\ UNCHANGED <<store, indexes, toDrop, files, nonEmptyFiles, i, failure, totalImported,
                 totalSkipped, isComplete, imp, rowsRead, writeFailures, analyticsVars,
                 response, listening, pending, stats>>

\* CountRows without line 287: totalImported stays the sum of the file counts
CountRowsKeepSum ==
  /\ pc = "count"
  /\ isComplete' = TRUE
  /\ pc' = "precompute"
  /\ PrecomputeBegin
  /\ UNCHANGED <<store, indexes, toDrop, rebuilt, files, nonEmptyFiles, i, failure, totalImported,
                 totalSkipped, imp, rowsRead, writeFailures, response, listening, pending, stats>>

\* CountRows without line 302: importAll returns without calling precompute()
CountRowsNoPrecompute ==
  /\ pc = "count"
  /\ totalImported' = Cardinality(store)
  /\ isComplete' = TRUE
  /\ pc' = "resolved"
  /\ UNCHANGED <<store, indexes, toDrop, rebuilt, files, nonEmptyFiles, i, failure,
                 totalSkipped, imp, rowsRead, writeFailures, analyticsVars, response,
                 listening, pending, stats>>

\* CountRows without line 301: precompute() is called with isComplete unset
CountRowsNotComplete ==
  /\ pc = "count"
  /\ totalImported' = Cardinality(store)
  /\ pc' = "precompute"
  /\ PrecomputeBegin
  /\ UNCHANGED <<store, indexes, toDrop, rebuilt, files, nonEmptyFiles, i, failure, totalSkipped, imp,
                 rowsRead, writeFailures, response, listening, pending, stats, isComplete>>

\* lines 287-302: the row count replaces totalImported, the run is marked
\* complete and precompute() is called
CountRows ==
  /\ pc = "count"
  /\ totalImported' = Cardinality(store)
  /\ isComplete' = TRUE
  /\ pc' = "precompute"
  /\ PrecomputeBegin
  /\ UNCHANGED <<store, indexes, toDrop, rebuilt, files, nonEmptyFiles, i, failure, totalSkipped, imp,
                 rowsRead, writeFailures, response, listening, pending, stats>>

(***************************************************************************)
(* The HTTP server (main.ts).                                              *)
(***************************************************************************)
\* BootstrapReturned for a hook that awaits importAll
BootstrapReturnedAwaited == pc \in {"returned", "resolved", "rejected"}

\* onApplicationBootstrap has returned: it calls importAll without awaiting
\* it, so it returns when importAll reaches its first await or returns
BootstrapReturned == pc # "start"

\* main.ts, app.listen: the lifecycle hooks have run and the server listens
Listen ==
  /\ ~listening
  /\ BootstrapReturned
  /\ listening' = TRUE
  /\ UNCHANGED <<ingestVars, analyticsVars, response, pending>>

\* a client of the listening server requests GET /analytics/<s>
HttpRequest(s) ==
  /\ listening
  /\ Request(s)

\* HealthController.getHealth, health.controller.ts 17-34; AnalyticsService has
\* no member isComputing, so the field reads undefined
getHealth ==
  LET noData == isComplete /\ totalImported = 0
  IN [status |-> IF noData THEN "warning" ELSE "ok",
      warning |-> IF noData THEN "No data imported. Run: bash scripts/download-data.sh"
                  ELSE Undefined,
      import |-> [complete |-> isComplete, totalImported |-> totalImported,
                  totalSkipped |-> totalSkipped],
      analytics |-> [ready |-> isReady, computing |-> Undefined]]

\* a client of the listening server requests GET /health, which has no guard
HealthRequest ==
  /\ listening
  /\ response' = [endpoint |-> "health", status |-> 200, body |-> getHealth]
  /\ UNCHANGED <<ingestVars, analyticsVars, listening, pending>>

(***************************************************************************)
(* Specifications.                                                         *)
(***************************************************************************)
\* the directory listings: the names count only through their sorted order, so
\* a listing of n matching files is the first n of AllFiles
Listings == {{f \in AllFiles : f <= n} : n \in 0..Cardinality(AllFiles)}

\* rows a run of the service before this one left in the store
PriorRows == {validate(RawRow(1, 0, 0), 0)}

Init ==
  /\ store \in SUBSET PriorRows
  /\ indexes = {PkIndex} \cup EntityIndexes
  /\ toDrop = {}
  /\ rebuilt = 0
  /\ pc = "start"
  /\ files = <<>>
  /\ nonEmptyFiles = <<>>
  /\ i = 0
  /\ failure = NoError
  /\ totalImported = 0
  /\ totalSkipped = 0
  /\ isComplete = FALSE
  /\ imp = [f \in AllFiles |-> FreshImport("idle")]
  /\ rowsRead = 0
  /\ writeFailures = 0
  /\ stats = ZeroStats
  /\ pending = NoRecord
  /\ cache = [s \in Slots |-> Absent]
  /\ cached = [s \in Slots |-> Default(s)]
  /\ isReady = FALSE
  /\ precomputeAttempts = 0
  /\ apc = "idle"
  /\ queryCalls = 0
  /\ response = NoResponse
  /\ listening = FALSE

\* the service as main.ts boots it: one import run, then one precompute pass
Next ==
  \/ \E d \in BOOLEAN, listing \in Listings : ImportAllStart(d, listing)
  \/ DropIndexes
  \/ \E x \in EntityIndexes \cup NamedIndexes : DropIndex(x)
  \/ \E empty \in SUBSET AllFiles : StartImports(empty)
  \/ \E f \in AllFiles, e \in Ids \cup {BadId} : ReadRow(f, e)
  \/ \E f \in AllFiles : EndOfFile(f)
  \/ \E f \in AllFiles : ParseError(f)
  \/ \E f \in AllFiles : WriteOk(f)
  \/ \E f \in AllFiles, applied \in BOOLEAN : WriteFail(f, applied)
  \/ \E f \in AllFiles : RetryWake(f)
  \/ GroupDone
  \/ RebuildIndexes
  \/ CountRows
  \/ \E o \in Outcomes : PrecomputeSettle(o)

Spec == Init /\ [][Next]_vars

\* the first file of DATA_DIR alone, or none
BootListings == {{f \in AllFiles : f <= n} : n \in 0..1}

\* the service with its HTTP server: the import run of one file, with the
\* server starting to listen and clients requesting the analytics endpoints
NextBoot ==
  \/ \E d \in BOOLEAN, listing \in BootListings : ImportAllStart(d, listing)
  \/ DropIndexes
  \/ \E x \in EntityIndexes \cup NamedIndexes : DropIndex(x)
  \/ \E empty \in SUBSET AllFiles : StartImports(empty)
  \/ \E f \in AllFiles, e \in Ids \cup {BadId} : ReadRow(f, e)
  \/ \E f \in AllFiles : EndOfFile(f)
  \/ \E f \in AllFiles : ParseError(f)
  \/ \E f \in AllFiles : WriteOk(f)
  \/ \E f \in AllFiles, applied \in BOOLEAN : WriteFail(f, applied)
  \/ \E f \in AllFiles : RetryWake(f)
  \/ GroupDone
  \/ RebuildIndexes
  \/ CountRows
  \/ \E o \in Outcomes : PrecomputeSettle(o)
  \/ Listen
  \/ \E s \in Slots : HttpRequest(s)
  \/ HealthRequest

SpecBoot == Init /\ [][NextBoot]_vars

\* SpecBoot with the import run and the precompute pass never starved: a
\* continuation that stays ready to run is run by the event loop, and the
\* reads, writes and queries it awaits settle
SpecBootFair == SpecBoot /\ WF_vars(Next)

\* the product and status columns that occur in the files read by NextVal
Products == {"POS", "KYC", "pos", "LOANS"}
Statuses == {"SUCCESS", "FAILED", "CANCELLED", ""}

\* the records line n of a file may hold: any product, status and amount
\* column, and an event_id that recurs every MaxId lines
ValRecords(n) ==
  {[RawRow(((n - 1) % MaxId) + 1, 0, 0) EXCEPT !.product = p, !.status = st, !.amount = a] :
     p \in Products, st \in Statuses, a \in Amounts}

\* the import run of one file of arbitrary content whose writes all succeed
NextVal ==
  \/ \E d \in BOOLEAN, listing \in BootListings : ImportAllStart(d, listing)
  \/ DropIndexes
  \/ \E x \in EntityIndexes \cup NamedIndexes : DropIndex(x)
  \/ \E empty \in SUBSET AllFiles : StartImports(empty)
  \/ \E f \in AllFiles : \E record \in ValRecords(imp[f].rowNumber + 1) :
         ReadRecord(f, record) /\ UNCHANGED pending
  \/ \E f \in AllFiles : EndOfFile(f)
  \/ \E f \in AllFiles : WriteOk(f)
  \/ GroupDone
  \/ RebuildIndexes
  \/ CountRows

SpecVal == Init /\ [][NextVal]_vars

\* the event_id columns of the lines of the file read by NextRow
RowIds == {1, 1 + UpperCase, 1 + MixedCase, BadId, NonHexId, ShortId, EmptyId, NoId}

\* the columns in which a line of that file may differ from the well-formed
\* row (the first one differs in nothing)
RowAlts ==
  {[col |-> "region", val |-> "Lagos"]}
  \cup {[col |-> "merchant_id", val |-> v] : v \in (Merchants \ {"MRC-123456"}) \cup {"", Undefined}}
  \cup {[col |-> "product", val |-> v] : v \in {"LOANS", "KYC", "", Undefined}}
  \cup {[col |-> "event_type", val |-> v] : v \in {"", Undefined}}
  \cup {[col |-> "status", val |-> v] : v \in {"CANCELLED", "FAILED", "", Undefined}}
  \cup {[col |-> "channel", val |-> v] : v \in {"FAX", "", Undefined}}
  \cup {[col |-> "merchant_tier", val |-> v] : v \in {"GOLD", "", Undefined}}
  \cup {[col |-> "amount", val |-> v] : v \in (Amounts \ {"1500.00"}) \cup {Undefined}}
  \cup {[col |-> "event_timestamp", val |-> v] : v \in (Timestamps \ {"2024-03-15T10:30:00Z"}) \cup {Undefined}}
  \cup {[col |-> "region", val |-> v] : v \in {"", Undefined}}

\* the columns validate does not require
OptionalColumns == {"event_timestamp", "amount", "channel", "region", "merchant_tier"}

\* the records line n of that file may hold: line 2 any event_id of RowIds
\* with up to two other columns changed, or the well-formed row without any
\* subset of its optional columns; the other lines one of five rows
RowRecords(n) ==
  IF n = 2
  THEN {[[RawRow(e, 0, 0) EXCEPT ![a.col] = a.val] EXCEPT ![b.col] = b.val] :
          e \in RowIds, a \in RowAlts, b \in RowAlts}
       \cup {[c \in DOMAIN RawRow(1, 0, 0) |->
                IF c \in S THEN Undefined ELSE RawRow(1, 0, 0)[c]] :
              S \in SUBSET OptionalColumns}
  ELSE {RawRow(2, 0, 0),
        RawRow(BadId, 0, 0),
        [RawRow(2, 0, 0) EXCEPT !.status = ""],
        [RawRow(2, 0, 0) EXCEPT !.product = "LOANS"],
        [RawRow(2 + UpperCase, 0, 0) EXCEPT !.amount = "-5", !.channel = "FAX",
                                            !.merchant_tier = "GOLD", !.merchant_id = "M1",
                                            !.event_timestamp = "2023-12-31T23:59:59Z"]}

InitRow ==
  /\ store = {}
  /\ indexes = {PkIndex} \cup EntityIndexes
  /\ toDrop = {}
  /\ rebuilt = 0
  /\ pc = "start"
  /\ files = <<>>
  /\ nonEmptyFiles = <<>>
  /\ i = 0
  /\ failure = NoError
  /\ totalImported = 0
  /\ totalSkipped = 0
  /\ isComplete = FALSE
  /\ imp = [f \in AllFiles |-> FreshImport("idle")]
  /\ rowsRead = 0
  /\ writeFailures = 0
  /\ stats = ZeroStats
  /\ pending \in RowRecords(1)
  /\ cache = [s \in Slots |-> Absent]
  /\ cached = [s \in Slots |-> Default(s)]
  /\ isReady = FALSE
  /\ precomputeAttempts = 0
  /\ apc = "idle"
  /\ queryCalls = 0
  /\ response = NoResponse
  /\ listening = FALSE

\* lines 338-351 for a file of given content: the parser yields its next record
ReadPending(f) ==
  /\ ReadRecord(f, pending)
  /\ pending' \in RowRecords(imp[f].rowNumber + 2)

\* the import run of one file whose lines are RowRecords, whose writes all
\* succeed and whose precompute() pass has no failing query
NextRow ==
  \/ \E d \in BOOLEAN, listing \in BootListings : ImportAllStart(d, listing)
  \/ DropIndexes
  \/ \E x \in EntityIndexes \cup NamedIndexes : DropIndex(x)
  \/ \E empty \in SUBSET AllFiles : StartImports(empty)
  \/ \E f \in AllFiles : ReadPending(f)
  \/ \E f \in AllFiles : EndOfFile(f)
  \/ \E f \in AllFiles : WriteOk(f)
  \/ GroupDone
  \/ RebuildIndexes
  \/ CountRows
  \/ PrecomputeSettle([s \in Slots |-> "fulfilled"])

SpecRow == InitRow /\ [][NextRow]_vars

\* rebuildIndexes called, and called again, on a store that holds any of the
\* five named indexes, with or without the indexes of the entity
InitIdx ==
  /\ store = {}
  /\ indexes \in {{PkIndex} \cup e \cup n : e \in {{}, EntityIndexes}, n \in SUBSET NamedIndexes}
  /\ toDrop = {}
  /\ rebuilt = 0
  /\ pc = "rebuild"
  /\ files = <<>>
  /\ nonEmptyFiles = <<>>
  /\ i = 0
  /\ failure = NoError
  /\ totalImported = 0
  /\ totalSkipped = 0
  /\ isComplete = FALSE
  /\ imp = [f \in AllFiles |-> FreshImport("idle")]
  /\ rowsRead = 0
  /\ writeFailures = 0
  /\ stats = ZeroStats
  /\ pending = NoRecord
  /\ cache = [s \in Slots |-> Absent]
  /\ cached = [s \in Slots |-> Default(s)]
  /\ isReady = FALSE
  /\ precomputeAttempts = 0
  /\ apc = "idle"
  /\ queryCalls = 0
  /\ response = NoResponse
  /\ listening = FALSE

NextIdx ==
  \/ RebuildIndexes
  \/ CallRebuildIndexes

SpecIdx == InitIdx /\ [][NextIdx]_vars

\* AnalyticsService under a caller that calls precompute() again and again,
\* with the analytics endpoints being requested throughout
NextSvc ==
  \/ CallPrecompute
  \/ \E o \in Outcomes : PrecomputeSettle(o)
  \/ \E s \in Slots : Request(s)

SpecSvc == Init /\ [][NextSvc]_vars

\* a stored row of merchant m with status st and amount column a
StoredRow(e, m, st, a) ==
  [validate([RawRow(1, 0, 0) EXCEPT !.merchant_id = m, !.status = st, !.amount = a], 0)
     EXCEPT !.event_id = e]

\* the rows the store may hold when AnalyticsService is called on its own
QueryRows ==
  {StoredRow(1, "MRC-000001", "SUCCESS", "1500.00"),
   StoredRow(2, "MRC-000002", "SUCCESS", "1500.00"),
   StoredRow(3, "MRC-000002", "SUCCESS", "1250.00"),
   StoredRow(4, "MRC-000001", "FAILED", "1500.00"),
   StoredRow(5, "MRC-123456", "SUCCESS", "0"),
   StoredRow(6, "MRC-000001", "SUCCESS", "1250.00"),
   StoredRow(7, "MRC-000002", "PENDING", "1500.00"),
   StoredRow(8, "MRC-123456", "SUCCESS", "1500.00")}

\* a stored event of merchant m: product p, event type t, status st
StoredEvent(e, m, p, t, st) ==
  [StoredRow(e, m, st, "0") EXCEPT !.product = p, !.event_type = t]

\* rows of three products, one of them with no SUCCESS or FAILED row
RateRows ==
  {StoredEvent(1, "MRC-000001", "POS", "CARD_TRANSACTION", "SUCCESS"),
   StoredEvent(2, "MRC-000001", "POS", "CARD_TRANSACTION", "FAILED"),
   StoredEvent(3, "MRC-000002", "POS", "CARD_TRANSACTION", "FAILED"),
   StoredEvent(4, "MRC-000002", "POS", "CARD_TRANSACTION", "PENDING"),
   StoredEvent(5, "MRC-000001", "AIRTIME", "AIRTIME_PURCHASE", "SUCCESS"),
   StoredEvent(6, "MRC-000002", "AIRTIME", "AIRTIME_PURCHASE", "FAILED"),
   StoredEvent(7, "MRC-000001", "BILLS", "BILL_PAYMENT", "PENDING")}

\* KYC events of two merchants, and rows of another product, status or event
\* type
FunnelRows ==
  {StoredEvent(1, "MRC-000001", "KYC", "DOCUMENT_SUBMITTED", "SUCCESS"),
   StoredEvent(2, "MRC-000001", "KYC", "DOCUMENT_SUBMITTED", "SUCCESS"),
   StoredEvent(3, "MRC-000002", "KYC", "DOCUMENT_SUBMITTED", "SUCCESS"),
   StoredEvent(4, "MRC-000001", "KYC", "VERIFICATION_COMPLETED", "SUCCESS"),
   StoredEvent(5, "MRC-000001", "KYC", "TIER_UPGRADE", "FAILED"),
   StoredEvent(6, "MRC-000002", "POS", "TIER_UPGRADE", "SUCCESS"),
   StoredEvent(7, "MRC-000002", "KYC", "CARD_TRANSACTION", "SUCCESS")}

InitQuery ==
  /\ store \in (SUBSET QueryRows) \cup (SUBSET RateRows) \cup (SUBSET FunnelRows)
  /\ indexes = {PkIndex} \cup EntityIndexes
  /\ toDrop = {}
  /\ rebuilt = 0
  /\ pc = "start"
  /\ files = <<>>
  /\ nonEmptyFiles = <<>>
  /\ i = 0
  /\ failure = NoError
  /\ totalImported = 0
  /\ totalSkipped = 0
  /\ isComplete = FALSE
  /\ imp = [f \in AllFiles |-> FreshImport("idle")]
  /\ rowsRead = 0
  /\ writeFailures = 0
  /\ stats = ZeroStats
  /\ pending = NoRecord
  /\ cache = [s \in Slots |-> Absent]
  /\ cached = [s \in Slots |-> Default(s)]
  /\ isReady = FALSE
  /\ precomputeAttempts = 0
  /\ apc = "idle"
  /\ queryCalls = 0
  /\ response = NoResponse
  /\ listening = FALSE

\* AnalyticsService over a store of any content: precompute() is called, and
\* its queries are answered or fail
NextQuery ==
  \/ CallPrecompute
  \/ \E o \in Outcomes : PrecomputeSettle(o)

SpecQuery == InitQuery /\ [][NextQuery]_vars

(***************************************************************************)
(* Properties.                                                             *)
(***************************************************************************)
FromFile(f) == {r \in store : r.payload[1] = f}

\* C1: every step leaves each stored record in place and the store with at
\* most one record per event_id, so a bulk write holding an event_id that is
\* already stored adds no record for it and does not change the stored one.
C1_IdempotentBulkWrite ==
  [][/\ \A r \in store : r \in store'
     /\ \A a, b \in store' : a.event_id = b.event_id => a = b]_vars

\* a file has been imported and counted of which no row is in the store: all
\* its rows were ignored as conflicts
C1_Witness ==
  \E f \in AllFiles :
    /\ imp[f].pc = "done"
    /\ imp[f].imported > 0
    /\ FromFile(f) = {}
    /\ store # {}

\* C2: a run that starts against a populated store reads no file, issues no
\* bulk write, leaves the rows as they were and goes straight to precompute().
C2_RestartSkipsIngestion ==
  (store \cap PriorRows # {}) =>
    /\ \A f \in AllFiles : imp[f].pc = "idle"
    /\ store \subseteq PriorRows
    /\ pc \in {"start", "returned", "precompute", "resolved"}

C4_RetryOnceThenGiveUp ==
  (apc = "idle" /\ precomputeAttempts > 0 /\ \A s \in Slots : cache[s] = Absent) =>
    (queryCalls = 2 * Cardinality(Slots) /\ ~isReady)

\* C5: the pass that settles with outcome o writes its result into the slot
\* of each fulfilled query and leaves the slot of each rejected query as it was.
C5_SlotsIndependent ==
  [][\A o \in Outcomes :
       PrecomputeSettle(o) =>
         \A s \in Slots :
           cache'[s] = IF o[s] = "fulfilled" THEN precomputeAttempts ELSE cache[s]]_vars

\* after two passes: a slot written by both, one kept from the first pass, one
\* written by the second only, one never written
C5_Witness ==
  /\ apc = "idle"
  /\ precomputeAttempts = 2
  /\ cache["topMerchant"] = 2
  /\ cache["kycFunnel"] = 1
  /\ cache["productAdoption"] = 2
  /\ cache["failureRates"] = Absent

\* C6: once isReady is true it stays true.
C6_ReadyIsStable == [][isReady => isReady']_vars

\* isReady after a second pass in which every query failed
C6_Witness ==
  /\ isReady
  /\ apc = "idle"
  /\ precomputeAttempts = 2
  /\ \A s \in Slots : cache[s] # 2

\* C7: a request made while isReady is false is answered 503 without a cache
\* value; a request is answered from the cache only while isReady is true.
C7_GuardedEndpoints ==
  [][\A s \in Slots :
       Request(s) =>
         IF isReady
         THEN response'.status = 200 /\ response'.body = Getter(s)
         ELSE response'.status = 503 /\ response'.body.kind = "error"]_vars

\* a request was refused while a pass was computing
C7_Witness == response.status = 503 /\ ~isReady /\ apc = "awaiting"

\* C8: the bulk write of a batch is attempted at least once and at most
\* MAX_RETRIES times, and a successful attempt ends the batch.
C8_BoundedAttempts ==
  [][\A f \in AllFiles :
       /\ imp'[f].pc \in {"writing", "waiting"} =>
            (imp'[f].attempt >= 1 /\ imp'[f].attempt <= MAX_RETRIES)
       /\ (imp[f].pc = "reading" /\ imp'[f].batch # <<>>) =>
            (imp'[f].pc = "writing" /\ imp'[f].attempt = 1)
       /\ WriteOk(f) =>
            (imp'[f].pc \in {"reading", "done"} /\ imp'[f].batch = <<>>)]_vars

\* the third attempt of a batch is under way
C8_Witness == \E f \in AllFiles : imp[f].pc = "writing" /\ imp[f].attempt = MAX_RETRIES

\* C9: a file whose batch failed MAX_RETRIES times rejects with the error of
\* the last attempt; the run is rejected, is never marked complete and never
\* calls precompute(); and no step removes a row from the store.
C9_ExhaustedRetriesAbort ==
  /\ [](\A f \in AllFiles :
          (imp[f].pc = "failed" /\ imp[f].thrown.kind = "write") =>
            /\ imp[f].thrown = WriteError(f, MAX_RETRIES)
            /\ pc = "rejected"
            /\ failure \in {imp[g].thrown : g \in {h \in AllFiles : imp[h].pc = "failed"}}
            /\ ~isComplete
            /\ precomputeAttempts = 0
            /\ apc = "idle")
  /\ [][store \subseteq store']_vars

\* a file has failed on a write after rows of it had reached the store
C9_Witness ==
  \E f \in AllFiles :
    /\ imp[f].pc = "failed"
    /\ imp[f].thrown.kind = "write"
    /\ FromFile(f) # {}
    /\ pc = "rejected"

C11_ParserPausedDuringFlush ==
  /\ [](\A f \in AllFiles :
          /\ Len(imp[f].chunk) <= BATCH_SIZE
          /\ Len(imp[f].batch) <= BATCH_SIZE
          /\ (imp[f].pc \in {"writing", "waiting"}) = (imp[f].batch # <<>>))
  /\ [][\A f \in AllFiles :
         imp[f].batch # <<>> =>
           /\ imp'[f].rowNumber <= imp[f].rowNumber
           /\ imp'[f].skipped <= imp[f].skipped
           /\ imp'[f].chunk = <<>>]_vars

\* a full batch is waiting for its retry in the middle of a file while the
\* file has a row left to read
C11_Witness ==
  \E f \in AllFiles :
    /\ imp[f].pc = "waiting"
    /\ Len(imp[f].batch) = BATCH_SIZE
    /\ ~imp[f].atEnd
    /\ imp[f].rowNumber = BATCH_SIZE
    /\ rowsRead < MaxRows

\* importFile(f) has been called and has neither returned nor thrown
InFlight(f) == imp[f].pc \in {"reading", "writing", "waiting"}

\* C12: at most CONCURRENT_FILE_IMPORTS file imports are in flight at a time,
\* and a step that starts file imports is taken only when no import is in
\* flight and every file of the groups before has finished.
C12_BoundedFileConcurrency ==
  /\ [](Cardinality({f \in AllFiles : InFlight(f)}) <= CONCURRENT_FILE_IMPORTS)
  /\ [][(\E f \in AllFiles : imp[f].pc = "idle" /\ imp'[f].pc # "idle") =>
         /\ \A g \in AllFiles : ~InFlight(g)
         /\ \A g \in Range(SubSeq(nonEmptyFiles', 1, i')) :
              imp[g].pc \in {"done", "collected"}
         /\ Cardinality({f \in AllFiles : imp[f].pc = "idle" /\ imp'[f].pc # "idle"})
              <= CONCURRENT_FILE_IMPORTS]_vars

\* the file of the second group is being written after both files of the
\* first group have put rows into the store
C12_Witness ==
  /\ i = CONCURRENT_FILE_IMPORTS
  /\ Len(nonEmptyFiles) > CONCURRENT_FILE_IMPORTS
  /\ imp[nonEmptyFiles[i + 1]].pc = "writing"
  /\ \A g \in Range(SubSeq(nonEmptyFiles, 1, i)) :
       imp[g].pc = "collected" /\ FromFile(g) # {}

\* the sum of a counter over the importFile calls of a set of files
RECURSIVE CountOver(_, _)
CountOver(S, field) ==
  IF S = {} THEN 0
  ELSE LET f == CHOOSE x \in S : TRUE
       IN imp[f][field] + CountOver(S \ {f}, field)

C14_DuplicatesNotCounted ==
  /\ \A f \in AllFiles :
       imp[f].pc = "done" => imp[f].imported = Cardinality(FromFile(f))
  /\ pc \in {"rebuild", "count", "precompute", "resolved"} =>
       totalImported = Cardinality(store \ PriorRows)

\* C14, amended: a row is skipped only by validation, whatever the store
\* holds; a successful bulk write adds the length of its batch, duplicates
\* included, to the file's imported count; and once the run has counted the
\* rows, totalImported is the number of records in the store.
C14_FinalCountIsRowCount ==
  /\ [](pc \in {"precompute", "resolved"} => totalImported = Cardinality(store))
  /\ [][\A f \in AllFiles :
         /\ \A e \in Ids \cup {BadId} :
              ReadRow(f, e) =>
                imp'[f].skipped = imp[f].skipped
                  + (IF validate(RawRow(e, f, imp'[f].rowNumber), imp'[f].rowNumber) = Null
                     THEN 1 ELSE 0)
         /\ WriteOk(f) => imp'[f].imported = imp[f].imported + Len(imp[f].batch)]_vars

\* one file with a valid row and a duplicate of it has been imported into an
\* empty store: totalImported is 1 and totalSkipped 0
C14_Witness ==
  /\ pc = "precompute"
  /\ Len(nonEmptyFiles) = 1
  /\ rowsRead = 2
  /\ Cardinality(store) = 1
  /\ FromFile(nonEmptyFiles[1]) = store
  /\ totalImported = 1
  /\ totalSkipped = 0

\* C15: while any file import is in flight dropIndexes has finished and no
\* secondary index exists; while dropIndexes or rebuildIndexes is running no
\* file import is in flight; and no step that changes the indexes is taken
\* with an import in flight.
C15_NoWriteOverlapsIndexChange ==
  /\ [](\A f \in AllFiles :
          InFlight(f) =>
            /\ pc \in {"awaitGroup", "rejected"}
            /\ toDrop = {}
            /\ indexes \subseteq {PkIndex})
  /\ [](pc \in {"dropIndexes", "dropping", "rebuild", "count"} =>
          \A f \in AllFiles : imp[f].pc \in {"idle", "collected"})
  /\ [][(indexes' # indexes \/ toDrop' # toDrop) =>
         \A f \in AllFiles : ~InFlight(f) /\ imp'[f].pc = imp[f].pc]_vars

\* rebuildIndexes is running on a store that holds rows written by a file
\* import after the indexes had been dropped
C15_Witness ==
  /\ pc = "rebuild"
  /\ rebuilt = 2
  /\ indexes \cap EntityIndexes = {}
  /\ \E f \in AllFiles : FromFile(f) # {}

\* C16: a run that has dropped the secondary indexes and has ended, resolved
\* or rejected with every file import over, has recreated the five named
\* indexes.
C16_IndexesRestoredWhenRunEnds ==
  (/\ pc \in {"resolved", "rejected"}
   /\ \A f \in AllFiles : ~InFlight(f)) =>
    NamedIndexes \subseteq indexes

\* C17: rebuildIndexes raises no error whatever indexes exist; when it
\* returns, the five named indexes exist; it adds no other index and removes
\* none; and run on a store that holds the five it changes nothing.
C17_RebuildIsIdempotent ==
  /\ [](pc # "rejected" /\ failure = NoError)
  /\ [](pc = "count" => NamedIndexes \subseteq indexes)
  /\ [][/\ indexes \subseteq indexes'
        /\ indexes' \ NamedIndexes = indexes \ NamedIndexes]_vars
  /\ [][NamedIndexes \subseteq indexes => indexes' = indexes]_vars

\* rebuildIndexes has run two of its queries on a store that already held
\* all five named indexes
C17_Witness ==
  /\ pc = "rebuild"
  /\ rebuilt = 2
  /\ NamedIndexes \subseteq indexes

C20_StoredRowsAreValid ==
  \A r \in store :
    /\ r.amount >= 0
    /\ r.product \in VALID_PRODUCTS
    /\ r.status \in VALID_STATUSES

\* a file of three lines has been imported of which two were skipped and one,
\* with an amount column that is not a positive number, was stored with amount 0
C20_Witness ==
  /\ pc = "rebuild"
  /\ totalSkipped = 2
  /\ totalImported = 1
  /\ \E r \in store :
       r.payload[1] # 0 /\ r.amount = 0 /\ r.product = "KYC" /\ r.status = "FAILED"

\* C21: the store is append-only: no step deletes a stored record or changes
\* one (after every step the records stored under an event_id that was
\* already stored are exactly the record that was there), so the store of a
\* later state contains the store of every earlier state.
C21_StoreAppendOnly ==
  [][/\ store \subseteq store'
     /\ \A r \in store : {q \in store' : q.event_id = r.event_id} = {r}]_vars

\* the row of an earlier run is still stored after this run has added a row of
\* a file to it and a second file has written an event_id already stored
C21_Witness ==
  /\ PriorRows \subseteq store
  /\ \E f, g \in AllFiles :
       /\ f # g
       /\ FromFile(f) # {}
       /\ imp[g].pc = "done" /\ imp[g].imported > 0 /\ FromFile(g) = {}

\* the read step of file f skipped its row: the row was counted as skipped
\* and went into no chunk
SkippedRow(f) ==
  /\ imp'[f].skipped = imp[f].skipped + 1
  /\ imp'[f].chunk = imp[f].chunk
  /\ imp'[f].batch = imp[f].batch
  /\ imp'[f].pc = "reading"

\* the read step of file f accepted its row: the row was added to the chunk
\* (which is the batch if it was flushed) and not counted as skipped
AcceptedRow(f) ==
  /\ imp'[f].skipped = imp[f].skipped
  /\ Len(imp'[f].chunk) + Len(imp'[f].batch) = Len(imp[f].chunk) + 1
  /\ imp'[f].pc \in {"reading", "writing"}

\* the clean row that step added
PushedRow(f) ==
  IF imp'[f].chunk # <<>> THEN imp'[f].chunk[Len(imp'[f].chunk)]
  ELSE imp'[f].batch[Len(imp'[f].batch)]

\* the step reads the next line of file f
ReadStep(f) == imp[f].pc = "reading" /\ imp'[f].rowNumber = imp[f].rowNumber + 1

\* the counters of stats other than total and those of S are left as they are
OtherCountersKept(S) ==
  /\ stats'.total = stats.total + 1
  /\ \A k \in DOMAIN stats \ (S \cup {"total"}) : stats'[k] = stats[k]

\* C22: a row in which event_id, merchant_id, product, event_type or status is
\* absent or empty is skipped (validate returns null) and missingFields, and
\* no other counter but total, is one higher.
C22_MissingFieldsSkipped ==
  [][\A f \in AllFiles :
       /\ ReadStep(f)
       /\ \/ pending.event_id \in {EmptyId, NoId}
          \/ \E c \in {"merchant_id", "product", "event_type", "status"} :
               pending[c] \in {"", Undefined}
       => /\ SkippedRow(f)
          /\ stats'.missingFields = stats.missingFields + 1
          /\ OtherCountersKept({"missingFields"})]_vars

\* a row with an empty product and a status column that is absent has been
\* skipped after an earlier row without status was: missingFields is 2
C22_Witness ==
  /\ stats.missingFields = 2
  /\ stats.total = 2
  /\ \E f \in AllFiles : imp[f].skipped = 2 /\ imp[f].rowNumber = 2

\* C23: a row that has its required columns and an event_id that is not 8-4-4-4-12
\* hex digits is skipped and invalidUUID, and no other counter but total, is
\* one higher; an event_id of that form passes in lower, upper and mixed case:
\* invalidUUID stays, and with a valid product and status the row is accepted
\* with the event_id as written.
C23_InvalidUuidSkipped ==
  [][\A f \in AllFiles :
       /\ ReadStep(f)
       /\ pending.event_id \notin {EmptyId, NoId}
       /\ \A c \in {"merchant_id", "product", "event_type", "status"} :
            pending[c] \notin {"", Undefined}
       => IF /\ UuidText(pending.event_id).groups = <<8, 4, 4, 4, 12>>
             /\ UuidText(pending.event_id).digits # "other"
          THEN /\ stats'.invalidUUID = stats.invalidUUID
               /\ pending.product \in VALID_PRODUCTS /\ pending.status \in VALID_STATUSES
                  => AcceptedRow(f) /\ PushedRow(f).event_id = pending.event_id
          ELSE /\ SkippedRow(f)
               /\ stats'.invalidUUID = stats.invalidUUID + 1
               /\ OtherCountersKept({"invalidUUID"})]_vars

\* after a first row with event_id "not-a-uuid" was skipped, the second row,
\* with an event_id in mixed case, is in the chunk
C23_Witness ==
  /\ stats.invalidUUID = 1
  /\ stats.total = 2
  /\ \E f \in AllFiles :
       /\ imp[f].skipped = 1
       /\ imp[f].chunk # <<>>
       /\ imp[f].chunk[1].event_id = 1 + MixedCase

\* the row read has its five required columns
RequiredPresent ==
  /\ pending.event_id \notin {EmptyId, NoId}
  /\ \A c \in {"merchant_id", "product", "event_type", "status"} :
       pending[c] \notin {"", Undefined}

\* the rows of a table with a product and a status of the enums
ValidRows(table) ==
  {r \in table : r.product \in VALID_PRODUCTS /\ r.status \in VALID_STATUSES}

\* C24: a row with its required columns and a well-formed event_id whose
\* product is outside the product enum is skipped with invalidProduct one
\* higher, and one whose product is valid and whose status is outside the
\* status enum (CANCELLED) is skipped with invalidStatus one higher; no such
\* row is ever in the store, and each of the five cached projections is what
\* its query gives on the stored rows with valid product and status.
C24_InvalidEnumSkipped ==
  [][/\ \A f \in AllFiles :
          ReadStep(f) /\ RequiredPresent /\ UuidTest(pending.event_id) =>
            /\ pending.product \notin VALID_PRODUCTS =>
                 /\ SkippedRow(f)
                 /\ stats'.invalidProduct = stats.invalidProduct + 1
                 /\ OtherCountersKept({"invalidProduct"})
            /\ pending.product \in VALID_PRODUCTS /\ pending.status \notin VALID_STATUSES =>
                 /\ SkippedRow(f)
                 /\ stats'.invalidStatus = stats.invalidStatus + 1
                 /\ OtherCountersKept({"invalidStatus"})
     /\ store' = ValidRows(store')
     /\ \A s \in Slots : cache'[s] # Absent => cached'[s] = Query(s, ValidRows(store'))]_vars

\* a file whose first row has product LOANS and whose second row has status
\* CANCELLED has been imported and the projections computed from its third row
C24_Witness ==
  /\ pc = "resolved"
  /\ stats.invalidProduct = 1
  /\ stats.invalidStatus = 1
  /\ totalSkipped = 2
  /\ Cardinality(store) = 1
  /\ cache["productAdoption"] # Absent
  /\ DOMAIN cached["productAdoption"] = {"POS"}

\* the row read passes the four checks that skip a row
PassesChecks ==
  /\ RequiredPresent
  /\ UuidTest(pending.event_id)
  /\ pending.product \in VALID_PRODUCTS
  /\ pending.status \in VALID_STATUSES

\* the counter is one higher if `raised`, and as it was if not
CountsIf(counter, raised) ==
  stats'[counter] = stats[counter] + (IF raised THEN 1 ELSE 0)

\* C25: a row that passes the four checks is accepted whatever its
\* merchant_id, channel, merchant_tier, amount and event_timestamp; a
\* merchant_id that is not MRC- and six digits, a channel or a tier outside
\* its enum (stored as null), a negative amount and a timestamp of another
\* year than DATA_YEAR (stored as parsed) each add 1 to their own counter, and
\* the counters of the conditions the row does not meet stay.
C25_WarningsNeverSkip ==
  [][\A f \in AllFiles :
       ReadStep(f) /\ PassesChecks =>
         /\ AcceptedRow(f)
         /\ stats'.total = stats.total + 1
         /\ \A k \in {"missingFields", "invalidUUID", "invalidProduct", "invalidStatus"} :
              stats'[k] = stats[k]
         /\ CountsIf("invalidMerchantId",
                     pending.merchant_id \notin {"MRC-123456", "MRC-000001", "MRC-000002"})
         /\ CountsIf("invalidChannel", pending.channel \in {"FAX"})
         /\ pending.channel \in {"FAX", "", Undefined} => PushedRow(f).channel = NullText
         /\ CountsIf("invalidTier", pending.merchant_tier \in {"GOLD"})
         /\ pending.merchant_tier \in {"GOLD", "", Undefined} =>
              PushedRow(f).merchant_tier = NullText
         /\ CountsIf("negativeAmount", pending.amount = "-5")
         /\ CountsIf("suspiciousDate", pending.event_timestamp = "2023-12-31T23:59:59Z")
         /\ pending.event_timestamp = "2023-12-31T23:59:59Z" =>
              PushedRow(f).event_timestamp = [valid |-> TRUE, year |-> 2023, month |-> 12]]_vars

\* two rows that each have an unknown channel and a timestamp of 2023 make the
\* batch of a bulk write, with channel null and the timestamp kept
C25_Witness ==
  /\ stats.invalidChannel = 2
  /\ stats.suspiciousDate = 2
  /\ stats.invalidMerchantId = 1
  /\ \E f \in AllFiles :
       /\ imp[f].pc = "writing"
       /\ Len(imp[f].batch) = 2
       /\ \A k \in 1..2 :
            /\ imp[f].batch[k].channel = NullText
            /\ imp[f].batch[k].event_timestamp.year = 2023

\* C26 as claimed: every validate call on a row whose amount is negative
\* increments negativeAmount by 1.
C26_EveryNegativeCounted ==
  [][\A f \in AllFiles :
       ReadStep(f) /\ pending.amount = "-5" =>
         stats'.negativeAmount = stats.negativeAmount + 1]_vars

\* C26: a row that passes the four checks and has a negative amount is
\* accepted with amount 0 and negativeAmount one higher; a row that is skipped
\* leaves negativeAmount as it is; no row of a chunk, of a batch or of the
\* store has a negative amount.
C26_NegativeClampedAndCounted ==
  [][/\ \A f \in AllFiles :
          /\ ReadStep(f) /\ PassesChecks /\ pending.amount = "-5" =>
               /\ AcceptedRow(f)
               /\ PushedRow(f).amount = 0
               /\ stats'.negativeAmount = stats.negativeAmount + 1
          /\ ReadStep(f) /\ ~PassesChecks =>
               SkippedRow(f) /\ stats'.negativeAmount = stats.negativeAmount
          /\ \A k \in 1..Len(imp'[f].chunk) : imp'[f].chunk[k].amount >= 0
          /\ \A k \in 1..Len(imp'[f].batch) : imp'[f].batch[k].amount >= 0
     /\ \A r \in store' : r.amount >= 0]_vars

\* of three rows read two had amount -5: both are stored with amount 0 and
\* negativeAmount is 2
C26_Witness ==
  /\ stats.negativeAmount = 2
  /\ stats.total = 3
  /\ Cardinality(store) = 2
  /\ \A r \in store : r.amount = 0

C28_ValidateNeverThrows ==
  [][\A f \in AllFiles :
       imp[f].pc = "reading" /\ imp'[f] # imp[f] /\ stats'.total = stats.total + 1 =>
         /\ SkippedRow(f) \/ AcceptedRow(f)
         /\ imp'[f].rowNumber = imp[f].rowNumber + 1
         /\ imp'[f].pc # "failed"
         /\ pc' = pc
         /\ failure' = failure]_vars

\* a row without any of its optional columns is in the chunk, after a row
\* with an empty status was skipped
C28_Witness ==
  /\ stats.total = 2
  /\ stats.missingFields = 1
  /\ pc = "awaitGroup"
  /\ \E f \in AllFiles :
       /\ imp[f].pc = "reading"
       /\ Len(imp[f].chunk) = 1
       /\ imp[f].chunk[1].channel = NullText
       /\ imp[f].chunk[1].region = NullText
       /\ imp[f].chunk[1].merchant_tier = NullText
       /\ imp[f].chunk[1].event_timestamp = NoDate
       /\ imp[f].chunk[1].amount = 0

\* the stored SUCCESS rows that have a timestamp
DatedSuccessRows(table) ==
  {x \in table : x.status = "SUCCESS" /\ x.event_timestamp.valid}

\* C29: a row that passes the four checks and whose event_timestamp is
\* absent, empty or not a date is accepted with a null timestamp; once the
\* projections are cached, the product of every stored row without timestamp
\* has in product adoption the number of distinct merchants of the rows of
\* that product, the row's own merchant among them, and the months of monthly
\* active merchants and their counts are those of the SUCCESS rows that have
\* a timestamp.
C29_NullTimestampRow ==
  [][/\ \A f \in AllFiles :
          /\ ReadStep(f)
          /\ PassesChecks
          /\ pending.event_timestamp \in {"", "not-a-date", Undefined}
          => AcceptedRow(f) /\ PushedRow(f).event_timestamp = NoDate
     /\ cache'["productAdoption"] # Absent =>
          \A r \in store' :
            r.event_timestamp = NoDate =>
              /\ r.product \in DOMAIN cached'["productAdoption"]
              /\ cached'["productAdoption"][r.product] =
                   Cardinality({x.merchant_id : x \in {y \in store' : y.product = r.product}})
     /\ cache'["monthlyActiveMerchants"] # Absent =>
          LET rows == DatedSuccessRows(store')
              months == cached'["monthlyActiveMerchants"]
          IN /\ DOMAIN months =
                  {<<x.event_timestamp.year, x.event_timestamp.month>> : x \in rows}
             /\ \A m \in DOMAIN months :
                  months[m] = Cardinality({x.merchant_id : x \in
                    {y \in rows : <<y.event_timestamp.year, y.event_timestamp.month>> = m}})]_vars

\* the store holds a row of merchant MRC-000001 without timestamp and a row
\* of another merchant of March 2024, both of product POS: product adoption
\* has 2 merchants for POS and monthly active merchants 1 for 2024-03 only
C29_Witness ==
  /\ pc = "resolved"
  /\ Cardinality(store) = 2
  /\ \E r \in store : r.event_timestamp = NoDate /\ r.merchant_id = "MRC-000001"
  /\ cache["productAdoption"] # Absent
  /\ cached["productAdoption"] = [p \in {"POS"} |-> 2]
  /\ cached["monthlyActiveMerchants"] = [m \in {<<2024, 3>>} |-> 1]

\* the sum of amount over the SUCCESS rows of merchant m
SuccessVolume(m) == SumAmount({r \in store : r.status = "SUCCESS" /\ r.merchant_id = m})

\* C30: the cached top merchant is null when the store holds no SUCCESS row;
\* otherwise it is a merchant with a SUCCESS row, with the sum of amount over
\* its SUCCESS rows, such that every other merchant has a smaller sum, or the
\* same sum and a merchant_id that sorts after it.
C30_TopMerchant ==
  cache["topMerchant"] # Absent =>
    LET top == cached["topMerchant"]
        ms == {r.merchant_id : r \in {x \in store : x.status = "SUCCESS"}}
    IN IF ms = {}
       THEN top = NullMerchant
       ELSE /\ top.merchant_id \in ms
            /\ top.total_volume = SuccessVolume(top.merchant_id)
            /\ \A o \in ms \ {top.merchant_id} :
                 \/ SuccessVolume(o) < top.total_volume
                 \/ /\ SuccessVolume(o) = top.total_volume
                    /\ MerchantRank(top.merchant_id) < MerchantRank(o)

\* MRC-000001 and MRC-000002 both have 1500 over their SUCCESS rows, the
\* first one also a FAILED row of 1500: the top merchant is MRC-000001
C30_Witness ==
  /\ cache["topMerchant"] # Absent
  /\ cached["topMerchant"] = [merchant_id |-> "MRC-000001", total_volume |-> 1500]
  /\ SuccessVolume("MRC-000002") = 1500
  /\ \E r \in store : r.merchant_id = "MRC-000001" /\ r.status = "FAILED"

\* the rows of product p that count in its failure rate
RatedRows(p) == {r \in store : r.product = p /\ r.status \in {"SUCCESS", "FAILED"}}

\* C31: the failure-rates list of a pass holds exactly one entry per product
\* with a SUCCESS or FAILED row in the store; the rate of an entry is
\* FAILED / (SUCCESS + FAILED) x 100 rounded to one decimal, PENDING rows in
\* neither term; the entries come by rate, largest first.
C31_FailureRates ==
  cache["failureRates"] # Absent =>
    LET list == cached["failureRates"]
        rated == {p \in {r.product : r \in store} : RatedRows(p) # {}}
    IN /\ {list[k].product : k \in DOMAIN list} = rated
       /\ Len(list) = Cardinality(rated)
       /\ \A k \in DOMAIN list :
            LET n == Cardinality(RatedRows(list[k].product))
                failed == Cardinality({r \in RatedRows(list[k].product) :
                                        r.status = "FAILED"})
                tenths == list[k].failure_rate
            IN /\ n > 0
               /\ 2 * n * tenths - n <= 2000 * failed
               /\ 2000 * failed < 2 * n * tenths + n
       /\ \A k \in 1..(Len(list) - 1) :
            list[k].failure_rate >= list[k + 1].failure_rate

\* a pass over a store with a product that has PENDING rows only, a product
\* with a PENDING row beside counted ones, and two products of different
\* rates, one of them rounded (2 of 3 is 66.7)
C31_Witness ==
  /\ cache["failureRates"] # Absent
  /\ Len(cached["failureRates"]) = 2
  /\ cached["failureRates"][1] = [product |-> "POS", failure_rate |-> 667]
  /\ cached["failureRates"][2].failure_rate < 667
  /\ \E r \in store : r.product = "BILLS"
  /\ \E r \in store : r.product = "POS" /\ r.status = "PENDING"

\* the merchants with a SUCCESS row of product KYC and event type t
StageMerchants(t) ==
  {r.merchant_id : r \in {x \in store : /\ x.product = "KYC"
                                         /\ x.status = "SUCCESS"
                                         /\ x.event_type = t}}

\* C32: the KYC funnel of a pass counts, for each of the three stages, the
\* distinct merchants with a SUCCESS row of product KYC and the event type of
\* the stage; a stage without such a row is 0, and no other row counts.
C32_KycFunnel ==
  cache["kycFunnel"] # Absent =>
    /\ cached["kycFunnel"].documents_submitted =
         Cardinality(StageMerchants("DOCUMENT_SUBMITTED"))
    /\ cached["kycFunnel"].verifications_completed =
         Cardinality(StageMerchants("VERIFICATION_COMPLETED"))
    /\ cached["kycFunnel"].tier_upgrades = Cardinality(StageMerchants("TIER_UPGRADE"))

\* a pass over a store with three DOCUMENT_SUBMITTED rows of two merchants,
\* and with TIER_UPGRADE rows of status FAILED and of product POS only
C32_Witness ==
  /\ cache["kycFunnel"] # Absent
  /\ Cardinality({r \in store : r.product = "KYC" /\ r.status = "SUCCESS"
                                  /\ r.event_type = "DOCUMENT_SUBMITTED"}) = 3
  /\ cached["kycFunnel"] = [documents_submitted |-> 2, verifications_completed |-> 1,
                            tier_upgrades |-> 0]
  /\ \E r \in store : r.event_type = "TIER_UPGRADE" /\ r.status = "FAILED"
  /\ \E r \in store : r.event_type = "TIER_UPGRADE" /\ r.product = "POS"
  /\ \E r \in store : r.product = "KYC" /\ r.event_type = "CARD_TRANSACTION"

\* the value v is the documented default of slot s: null, an empty map, an
\* empty map, three stages of 0, an empty list
IsDefaultOf(s, v) ==
  CASE s = "topMerchant" ->
         /\ DOMAIN v = {"merchant_id", "total_volume"}
         /\ v.merchant_id = NullText
    [] s = "kycFunnel" ->
         /\ DOMAIN v = {"documents_submitted", "verifications_completed", "tier_upgrades"}
         /\ \A k \in DOMAIN v : v[k] = 0
    [] OTHER -> DOMAIN v = {}

\* C33: before the first precompute pass every slot is unwritten, and the
\* accessor of a slot that no pass has written returns the default of the
\* slot, also when it answers a request.
C33_DefaultsForUnwrittenSlots ==
  /\ precomputeAttempts = 0 => \A s \in Slots : cache[s] = Absent
  /\ \A s \in Slots : cache[s] = Absent => IsDefaultOf(s, Getter(s).value)
  /\ (response.status = 200 /\ response.body.kind = "default")
       => IsDefaultOf(response.endpoint, response.body.value)

\* a pass has written some slots and left the KYC funnel unwritten, and the
\* funnel endpoint has answered with the default
C33_Witness ==
  /\ precomputeAttempts > 0
  /\ cache["kycFunnel"] = Absent
  /\ cache["topMerchant"] # Absent
  /\ response.status = 200
  /\ response.endpoint = "kycFunnel"
  /\ response.body.kind = "default"
  /\ response.body.value.tier_upgrades = 0

\* C34: the answer of GET /health has status 'ok' whatever the
\* import-complete flag, the import counters and the analytics-ready flag
\* were at the request.
C34_HealthAlwaysOk ==
  response.endpoint = "health" => response.body.status = "ok"

\* the import and analytics fields of the answer of GET /health are the
\* flags and counters of the moment of the request
HealthMirrorsState ==
  [][HealthRequest =>
       /\ response'.body.import = [complete |-> isComplete,
                                   totalImported |-> totalImported,
                                   totalSkipped |-> totalSkipped]
       /\ response'.body.analytics.ready = isReady]_vars

\* C35: whenever isComplete is true, isReady is true then or later, on every
\* path of importAll, the early returns on a missing data directory and on a
\* listing without matching file included.
C35_CompleteLeadsToReady == isComplete ~> isReady

\* the same for the runs that found a file to import
CompleteAfterImportLeadsToReady == (isComplete /\ pc # "returned") ~> isReady

\* the step starts a bulk-write attempt of file f: a flush hands a batch to
\* withRetry, or withRetry calls the operation again
IssuesWrite(f) ==
  /\ imp'[f].pc = "writing"
  /\ imp[f].pc # "writing" \/ imp'[f].attempt # imp[f].attempt

\* C36: once importAll has rejected because the import of a file failed, no
\* file import of the run starts another bulk write, and the store is written
\* no more.
C36_NoWriteAfterAbort ==
  [][pc = "rejected" => (store' = store /\ \A f \in AllFiles : ~IssuesWrite(f))]_vars

\* the line numbers of the rows of a chunk or batch, in order
LinesOf(q) == [k \in DOMAIN q |-> q[k].payload[2]]

\* C37: while a file is imported, each row validate has accepted is in one
\* place only: the chunk, the batch of the bulk write in flight, or the
\* batches already written (counted in imported); a row that reached the store
\* is in no later chunk or batch; the parser reads on only when no write is in
\* flight; and when the file's counts are returned the chunk and the batch
\* are empty, so every accepted row was written in exactly one batch.
C37_AcceptedRowsWrittenOnce ==
  \A f \in AllFiles :
    imp[f].pc \in {"reading", "writing", "waiting", "done"} =>
      LET l == imp[f]
          held == LinesOf(l.batch \o l.chunk)
      IN /\ \A k \in DOMAIN (l.batch \o l.chunk) : (l.batch \o l.chunk)[k].payload[1] = f
         /\ \A j, k \in DOMAIN held : j < k => held[j] < held[k]
         /\ \A k \in DOMAIN held : held[k] <= l.rowNumber
         /\ Len(held) + l.imported + l.skipped = l.rowNumber
         /\ \A r \in FromFile(f) :
              /\ r.payload[2] \notin Range(LinesOf(l.chunk))
              /\ \/ r.payload[2] \in Range(LinesOf(l.batch))
                 \/ \A k \in DOMAIN held : r.payload[2] < held[k]
         /\ l.pc = "reading" => l.batch = <<>>
         /\ l.pc \in {"writing", "waiting"} => l.batch # <<>>
         /\ l.pc = "done" => (l.chunk = <<>> /\ l.batch = <<>>)

\* a file of three accepted rows is imported: a full batch, then the partial
\* batch of the end of the file, one of them written at a second attempt
C37_Witness ==
  \E f \in AllFiles :
    /\ imp[f].pc = "done"
    /\ imp[f].rowNumber = 3
    /\ imp[f].imported = 3
    /\ writeFailures > 0
    /\ Cardinality(FromFile(f)) = 2

\* C38: isReady implies isComplete in every state of the booted service, and
\* a precompute pass is under way only with the run marked complete, the
\* indexes rebuilt and no file import still running.
C38_ReadyImpliesComplete ==
  /\ isReady => isComplete
  /\ apc = "awaiting" =>
       /\ isComplete
       /\ pc = "precompute"
       /\ rebuilt = Len(RebuildQueries)
       /\ \A f \in AllFiles : imp[f].pc \notin {"reading", "writing", "waiting"}

\* the run has imported rows of a file, rebuilt the indexes and its
\* precompute pass has made the analytics ready
C38_Witness ==
  /\ isReady
  /\ isComplete
  /\ pc = "resolved"
  /\ \E f \in AllFiles : FromFile(f) # {}

\* the four counters of skipped rows
SkipCounters == {"missingFields", "invalidUUID", "invalidProduct", "invalidStatus"}

\* the first check the record in `pending` fails, in the order of validate:
\* required columns, UUID, product, status
FirstFailingCheck ==
  IF \/ pending.event_id \in {EmptyId, NoId}
     \/ \E c \in {"merchant_id", "product", "event_type", "status"} :
          pending[c] \in {"", Undefined}
  THEN "missingFields"
  ELSE IF \/ UuidText(pending.event_id).groups # <<8, 4, 4, 4, 12>>
          \/ UuidText(pending.event_id).digits = "other"
  THEN "invalidUUID"
  ELSE IF pending.product \notin {"POS", "AIRTIME", "BILLS", "CARD_PAYMENT", "SAVINGS",
                                  "MONIEBOOK", "KYC"}
  THEN "invalidProduct"
  ELSE IF pending.status \notin {"SUCCESS", "FAILED", "PENDING"} THEN "invalidStatus"
  ELSE "none"

\* C39: while a file is read, total is the number of accepted rows plus the
\* sum of missingFields, invalidUUID, invalidProduct and invalidStatus; a
\* skipped row raises by one the counter of its first failing check, in the
\* order required columns, UUID, product, status, and no other counter but
\* total; an accepted row raises none of the four.
C39_TotalIsAcceptedPlusSkips ==
  /\ [](\A f \in AllFiles :
          imp[f].pc \in {"reading", "writing", "done"} =>
            stats.total = Len(imp[f].chunk) + Len(imp[f].batch) + imp[f].imported
                            + stats.missingFields + stats.invalidUUID
                            + stats.invalidProduct + stats.invalidStatus)
  /\ [][\A f \in AllFiles :
         ReadStep(f) =>
           /\ stats'.total = stats.total + 1
           /\ \A k \in SkipCounters :
                stats'[k] = stats[k] + (IF k = FirstFailingCheck THEN 1 ELSE 0)
           /\ IF FirstFailingCheck = "none"
              THEN AcceptedRow(f)
              ELSE /\ SkippedRow(f)
                   /\ \A k \in DOMAIN stats \ (SkipCounters \cup {"total"}) :
                        stats'[k] = stats[k]]_vars

\* three rows were read: one skipped for its event_id, one for its status,
\* and one accepted with a warning for its negative amount
C39_Witness ==
  /\ stats.total = 3
  /\ stats.invalidUUID = 1
  /\ stats.invalidStatus = 1
  /\ stats.missingFields = 0 /\ stats.invalidProduct = 0
  /\ stats.negativeAmount = 1
  /\ \E f \in AllFiles : imp[f].skipped = 2 /\ imp[f].imported = 1 /\ imp[f].pc = "done"

\* what importFile(f) returns, line 355
ReturnedCounts(f) ==
  [imported |-> imp[f].imported, skipped |-> imp[f].skipped, rows |-> imp[f].rowNumber]

\* C40: the counts a file import returns satisfy imported + skipped = rows,
\* and skipped is the number of rows of the file for which validate returned
\* null, which validate has counted in its four skip counters.
C40_CountsAddUp ==
  \A f \in AllFiles :
    imp[f].pc = "done" =>
      /\ ReturnedCounts(f).imported + ReturnedCounts(f).skipped = ReturnedCounts(f).rows
      /\ ReturnedCounts(f).rows = stats.total
      /\ ReturnedCounts(f).skipped = stats.missingFields + stats.invalidUUID
                                       + stats.invalidProduct + stats.invalidStatus

\* a file of three rows has returned: a batch of two rows and one skipped row
C40_Witness ==
  \E f \in AllFiles :
    /\ imp[f].pc = "done"
    /\ ReturnedCounts(f) = [imported |-> 2, skipped |-> 1, rows |-> 3]
    /\ stats.missingFields = 1

====
